---- MODULE Spec2Model ----
(***************************************************************************)
(* Audio transcoding pipeline of livellm-proxy: Resampler, ChunkCollector, *)
(* the codec functions and AudioAIService.speak / stream_speak; realtime   *)
(* transcription (realtime_transcribe and the transcription WebSocket),    *)
(* SpeakRequest validation and the FallbackManager.                        *)
(*                                                                         *)
(* A buffer (Python bytes) is a sequence of integers 0..255.  A PCM16      *)
(* sample is an integer -32768..32767 read little-endian from two bytes.   *)
(***************************************************************************)
EXTENDS Integers, Sequences, FiniteSets, TLC

VARIABLES
    harness,             \* which entry point drives the run: "speak", "stream", "chunker", "resampler"
    mime_type,           \* request.mime_type
    sample_rate,         \* request.sample_rate (target rate; the ChunkCollector's rate)
    chunk_size,          \* request.chunk_size, milliseconds
    default_sample_rate, \* the service's native rate (the Resampler's input rate)
    seed,                \* selects the audio signal the source produces
    pc,                  \* position of the caller of speak / stream_speak
    provider_calls,      \* provider calls issued so far: text2speech calls and pulls of stream_text2speech
    pulled,              \* buffers the source has yielded so far, in order
    first_chunk,         \* <<c>> while _generator has still to yield the first chunk c, else <<>>
    rs_pc,               \* Resampler.process_stream: "src", "flush", "done"
    rs_audio_buffer,     \* Resampler.audio_buffer (odd-byte carry)
    input_tail,          \* Resampler._input_tail_f32, as int16 numerators of x/32768; <<>> is None
    ck_pc,               \* ChunkCollector.process_stream: "run", "flushed"
    ck_audio_buffer,     \* ChunkCollector.audio_buffer
    demand,              \* the consumer is inside __anext__ of the returned stream
    rs_pending,          \* <<b>>: buffer b yielded by Resampler.process_stream, not yet received downstream
    ck_pending,          \* <<f>>: frame f yielded by ChunkCollector.process_stream, not yet received downstream
    enc_pc,              \* encode_from_pcm_stream: "fresh" (body not started), "run"
    out,                 \* chunks delivered to the consumer, in order: [data, final]
    stream,              \* the returned stream: "none", "open", "empty", "ended", "error"
    error,               \* "none", "provider", "ValueError", "audioop.error"
    raised_by,           \* "none", "call" (speak / stream_speak raised), "iteration" (the stream raised)
    result,              \* speak's local `audio`, then SpeakResponse.audio
    response,            \* what the call returned beside the audio: [content_type, sample_rate], or "none"
    enc_in,              \* frames encode_from_pcm_stream has received from its upstream, in order
    input_audio_format,  \* realtime: format of the caller's audio
    input_sample_rate,   \* realtime: rate of the caller's audio
    rt_pc,               \* realtime_transcribe: "idle", "gather", "cancelling", "returned", "raised", "cancelled"
    tasks,               \* asyncio tasks by name: "running", "done", "failed", "cancelling", "cancelled"
    provider_input,      \* buffers handed to the provider's input (add_audio), in order
    sink,                \* transcriptions the receive path has passed to audio_sink
    ws_pc,               \* transcription_websocket_endpoint: position
    ws_done,             \* the endpoint's local `done`: tasks asyncio.wait found completed
    ws_pending,          \* the endpoint's local `pending`: tasks still to cancel and await
    ws_awaiting,         \* <<t>> while the endpoint is in `await task` on t, else <<>>
    ws_cleanup,          \* index of the next task of the finally block's loop
    client_state,        \* websocket.client_state: "CONNECTED", "DISCONNECTED"
    session,             \* the provider service: "none", "created" (not connected), "open", "closed"
    disconnect_calls,    \* calls of service.disconnect()
    fb_strategy,         \* FallbackRequest.strategy
    fb_outcomes,         \* how execute() ends for each request of the list: "ok", "error", "timeout"
    fb_pc,               \* execute_sequential / execute_parallel: "idle", "for", "wait", "returned"
    fb_index,            \* execute_sequential: index of the request tried next
    fb_result,           \* what the call returned: <<"result", i>> (of request i), <<"None">>, or <<>> so far
    candidate,           \* the fields a SpeakRequest is constructed from
    validation,          \* SpeakRequest construction: "none", "accepted", "rejected"
    reqs,                \* two concurrent requests: the state of each one's own pipeline
    encoded,             \* codec: encode() of each chunk so far
    decoded,             \* codec: <<decode(encode(whole))>> once computed
    configs,             \* ConfigManager.configs: uid -> the Settings registered under it
    providers,           \* ConfigManager.providers: uid -> the client created for it
    cfg_call,            \* ConfigManager: the last call made, what it raised and returned
    request,             \* WsManager: the WsRequest being handled, with what its handler will do
    wm_pc,               \* WsManager / websocket_endpoint: position in handling the request
    responses            \* WsManager: the WsResponse statuses sent for the request, in order

vars == <<harness, mime_type, sample_rate, chunk_size, default_sample_rate, seed, pc,
          provider_calls, pulled, first_chunk, rs_pc, rs_audio_buffer, input_tail,
          ck_pc, ck_audio_buffer, demand, rs_pending, ck_pending, enc_pc, out, stream,
          error, raised_by, result, response, enc_in,
          input_audio_format, input_sample_rate, rt_pc, tasks, provider_input, sink,
          ws_pc, ws_done, ws_pending, ws_awaiting, ws_cleanup, client_state, session,
          disconnect_calls, fb_strategy, fb_outcomes, fb_pc, fb_index, fb_result,
          candidate, validation, reqs, encoded, decoded,
          configs, providers, cfg_call, request, wm_pc, responses>>

reqVars == <<harness, mime_type, sample_rate, chunk_size, default_sample_rate, seed>>
rsVars == <<rs_pc, rs_audio_buffer, input_tail>>
ckVars == <<ck_pc, ck_audio_buffer>>
callVars == <<pc, result, response>>
rtVars == <<input_audio_format, input_sample_rate, rt_pc, provider_input, sink>>
wsVars == <<ws_pc, ws_done, ws_pending, ws_awaiting, ws_cleanup, client_state, session,
            disconnect_calls>>
fbVars == <<fb_strategy, fb_outcomes, fb_pc, fb_index, fb_result>>
valVars == <<candidate, validation>>
codecVars == <<encoded, decoded>>
wmVars == <<request, wm_pc, responses>>
mgrVars == <<configs, providers, cfg_call, request, wm_pc, responses>>
\* everything outside the speak / stream_speak pipeline
otherVars == <<rtVars, tasks, wsVars, fbVars, valVars, reqs, codecVars, mgrVars>>

\* no realtime_transcribe call
RealtimeIdle ==
    /\ input_audio_format = "PCM"
    /\ input_sample_rate = 24000
    /\ rt_pc = "idle"
    /\ provider_input = <<>>
    /\ sink = 0

\* no WebSocket session
WsIdle ==
    /\ ws_pc = "idle"
    /\ ws_done = {}
    /\ ws_pending = {}
    /\ ws_awaiting = <<>>
    /\ ws_cleanup = 1
    /\ client_state = "CONNECTED"
    /\ session = "none"
    /\ disconnect_calls = 0

\* no FallbackManager call
FallbackIdle ==
    /\ fb_strategy = "sequential"
    /\ fb_outcomes = <<>>
    /\ fb_pc = "idle"
    /\ fb_index = 1
    /\ fb_result = <<>>

\* no SpeakRequest under construction
ValidationIdle == candidate = "none" /\ validation = "none"

\* ConfigManager: no call made yet
NoCall == [op |-> "none", uid |-> "none", model |-> "none", registered |-> FALSE,
           raised |-> "none", returned |-> "none", changed |-> FALSE]

\* WsManager: no request received yet
NoRequest == [action |-> "none", handler |-> "none", chunks |-> 0, send_fails |-> 0,
              handled |-> FALSE, raised |-> "none"]

WsManagerIdle == request = NoRequest /\ wm_pc = "idle" /\ responses = <<>>

ConfigIdle == configs = <<>> /\ providers = <<>> /\ cfg_call = NoCall

\* an empty ConfigManager and no WsManager request
ManagersIdle == ConfigIdle /\ WsManagerIdle

\* no codec call
CodecIdle == encoded = <<>> /\ decoded = <<>>

OtherIdle ==
    /\ RealtimeIdle /\ tasks = <<>> /\ WsIdle /\ FallbackIdle /\ ValidationIdle
    /\ ManagersIdle
    /\ reqs = <<>> /\ CodecIdle

---------------------------------------------------------------------------
(* Bounds of the model *)

\* most buffers a source yields in one run
MaxChunks == 2
\* most buffers fed to a component driven on its own
MaxBuffers == 3
\* the source's signals: byte k of signal s is ByteAt(s, k)
MaxSeed == 0
\* lengths 0..SmallLen are all tried as buffer lengths
SmallLen == 2

\* buffer lengths tried when the window is ms milliseconds: the short ones, and two
\* that grow with the window: less than a frame, and at least a frame at every
\* pair of rates
BufferLens(ms) == (0 .. SmallLen) \cup {35 * ms, 49 * ms + 1}

\* request.sample_rate and request.chunk_size values tried (valid: 8000..48000, 1..1000)
ModelRates == {8500, 16000, 24000}
ModelChunkSizes == {1, 9, 20}
\* default_sample_rate of the services: OpenAI 24000, ElevenLabs 16000
NativeRates == {16000, 24000}

---------------------------------------------------------------------------
(* Sequences of bytes *)

RECURSIVE Concat(_)
\* b"".join(bufs)
Concat(bufs) == IF bufs = <<>> THEN <<>> ELSE Head(bufs) \o Concat(Tail(bufs))

RECURSIVE TotalLen(_)
TotalLen(bufs) == IF bufs = <<>> THEN 0 ELSE Len(Head(bufs)) + TotalLen(Tail(bufs))

IsPrefix(s, t) == Len(s) <= Len(t) /\ SubSeq(t, 1, Len(s)) = s

\* byte k (1-based) of the signal s the source produces
ByteAt(s, k) == (s * 101 + k * 37) % 256

\* the next n bytes of the signal after `done` bytes
SourceBytes(s, done, n) == [i \in 1 .. n |-> ByteAt(s, done + i)]

Ceil(a, b) == (a + b - 1) \div b

---------------------------------------------------------------------------
(* PCM16 samples *)

\* np.frombuffer(pcm16, dtype=np.int16): little-endian signed samples of an even-length buffer
Int16Of(lo, hi) == LET u == lo + 256 * hi IN IF u >= 32768 THEN u - 65536 ELSE u

SamplesOf(pcm16) == [i \in 1 .. (Len(pcm16) \div 2) |-> Int16Of(pcm16[2 * i - 1], pcm16[2 * i])]

\* ndarray.tobytes() of an int16 array
BytesOf(samples) ==
    [j \in 1 .. (2 * Len(samples)) |->
        LET v == samples[(j + 1) \div 2]
            u == IF v < 0 THEN v + 65536 ELSE v
        IN IF j % 2 = 1 THEN u % 256 ELSE u \div 256]

---------------------------------------------------------------------------
(* Codecs: audioop.lin2ulaw / lin2alaw as called by encode, and wave's header *)

RECURSIVE XorBits(_, _, _)
\* a ^ b on n-bit unsigned values
XorBits(a, b, n) ==
    IF n = 0 THEN 0
    ELSE (((a % 2) + (b % 2)) % 2) + 2 * XorBits(a \div 2, b \div 2, n - 1)

RECURSIVE Shr(_, _)
\* v >> n for v >= 0
Shr(v, n) == IF n = 0 THEN v ELSE Shr(v \div 2, n - 1)

\* v >> n for a signed v (arithmetic shift)
Sar(v, n) == IF v >= 0 THEN Shr(v, n) ELSE -(Shr(-v - 1, n)) - 1

seg_uend == <<63, 127, 255, 511, 1023, 2047, 4095, 8191>>
seg_aend == <<31, 63, 127, 255, 511, 1023, 2047, 4095>>

\* search(val, table, 8): index (0-based) of the first segment end >= val, 8 if none
search(val, table) ==
    IF \E i \in 1 .. 8 : val <= table[i]
    THEN (CHOOSE i \in 1 .. 8 : val <= table[i] /\ \A j \in 1 .. (i - 1) : val > table[j]) - 1
    ELSE 8

\* st_14linear2ulaw on the 14-bit value sample >> 2
Lin2UlawSample(sample) ==
    LET v == Sar(sample, 2)
        mag == (IF v < 0 THEN -v ELSE v) + 33
        mask == IF v < 0 THEN 127 ELSE 255
        seg == search(mag, seg_uend)
    IN IF seg >= 8 THEN XorBits(127, mask, 8)
       ELSE XorBits(seg * 16 + (Shr(mag, seg + 1) % 16), mask, 8)

\* st_linear2alaw on the 13-bit value sample >> 3
Lin2AlawSample(sample) ==
    LET v == Sar(sample, 3)
        mag == IF v >= 0 THEN v ELSE -v - 1
        mask == IF v >= 0 THEN 213 ELSE 85
        seg == search(mag, seg_aend)
    IN IF seg >= 8 THEN XorBits(127, mask, 8)
       ELSE XorBits(seg * 16 + (Shr(mag, IF seg < 2 THEN 1 ELSE seg) % 16), mask, 8)

\* the result of a call that may raise: err is "none" or the exception
Ok(data) == [err |-> "none", data |-> data]
Raise(e) == [err |-> e, data |-> <<>>]

\* audioop.lin2ulaw(audio, 2): one byte per sample; a fragment that is not a whole
\* number of samples is refused
lin2ulaw(audio) ==
    IF Len(audio) % 2 # 0 THEN Raise("audioop.error")
    ELSE LET x == SamplesOf(audio) IN Ok([i \in 1 .. Len(x) |-> Lin2UlawSample(x[i])])

lin2alaw(audio) ==
    IF Len(audio) % 2 # 0 THEN Raise("audioop.error")
    ELSE LET x == SamplesOf(audio) IN Ok([i \in 1 .. Len(x) |-> Lin2AlawSample(x[i])])

MimeTypes == {"PCM", "WAV", "MP3", "ULAW", "ALAW"}

\* SpeakMimeType: the value of each member
MimeValue(mime) ==
    CASE mime = "PCM" -> "audio/pcm"
      [] mime = "WAV" -> "audio/wav"
      [] mime = "MP3" -> "audio/mpeg"
      [] mime = "ULAW" -> "audio/ulaw"
      [] mime = "ALAW" -> "audio/alaw"

\* encode(audio, mime_type)
encode(audio, mime) ==
    CASE mime = "PCM" -> Ok(audio)
      [] mime = "ULAW" -> lin2ulaw(audio)
      [] mime = "ALAW" -> lin2alaw(audio)
      [] OTHER -> Raise("ValueError")

LE16(v) == <<v % 256, (v \div 256) % 256>>
LE32(v) == <<v % 256, (v \div 256) % 256, (v \div 65536) % 256, (v \div 16777216) % 256>>

\* pcm2wav(pcm16, sample_rate) with channels = 1, sampwidth = 2: the RIFF/WAVE
\* header wave.open(..., "wb") writes, then the frames
pcm2wav(pcm16, rate) ==
    <<82, 73, 70, 70>> \o LE32(36 + Len(pcm16)) \o <<87, 65, 86, 69>>
    \o <<102, 109, 116, 32>> \o LE32(16) \o LE16(1) \o LE16(1)
    \o LE32(rate) \o LE32(1 * rate * 2) \o LE16(1 * 2) \o LE16(2 * 8)
    \o <<100, 97, 116, 97>> \o LE32(Len(pcm16)) \o pcm16

---------------------------------------------------------------------------
(* ChunkCollector *)

\* the (rate, ms) pairs of the model at which the double product
\* (ms / 1000.0) * rate * 2 lies below the exact one: 9 / 1000.0 * 24000 * 2 is
\* 431.99999999999994
DoubleBelow == {<<24000, 9>>}

\* ChunkCollector.__init__: int((chunk_size_ms / 1000.0) * sample_rate * 2).
\* Python computes the product in doubles and int() truncates it: the floor of the
\* exact product, less one where the double product falls below a whole number.
bytes_per_chunk(rate, ms) ==
    ((ms * rate * 2) \div 1000) - (IF <<rate, ms>> \in DoubleBelow THEN 1 ELSE 0)

\* a loop condition that leaves a whole frame in the buffer
FrameReadyStrict(buf, n) == Len(buf) > n

\* collect_chunks' loop condition: a whole frame is buffered
FrameReady(buf, n) == Len(buf) >= n

\* chunk = self.audio_buffer[:self.bytes_per_chunk]
FrameOf(buf, n) == SubSeq(buf, 1, n)

\* self.audio_buffer = self.audio_buffer[self.bytes_per_chunk:]
AfterFrame(buf, n) == SubSeq(buf, n + 1, Len(buf))

\* a flush that completes the last sample with a zero byte
ck_flush_padded(buf) == IF Len(buf) % 2 # 0 THEN buf \o <<0>> ELSE buf

\* ChunkCollector.flush: what it returns (the buffer is emptied)
ck_flush(buf) == buf

---------------------------------------------------------------------------
(* Resampler *)

RESAMPLER_TAIL_MULTIPLIER == 10

RECURSIVE gcd(_, _)
gcd(a, b) == IF b = 0 THEN a ELSE gcd(b, a % b)

\* Resampler.__init__: self._up, self._down, self._tail_len
UpOf(rin, rout) == rout \div gcd(rin, rout)
DownOf(rin, rout) == rin \div gcd(rin, rout)
Max(a, b) == IF a >= b THEN a ELSE b
TailLen(rin, rout) == RESAMPLER_TAIL_MULTIPLIER * Max(UpOf(rin, rout), DownOf(rin, rout))

\* (x.clip(-1, 1) * PCM16_MAX_INT).astype(np.int16) of x = v / 32768.0: the value
\* v * 32767 / 32768 truncated toward zero
ToInt16(v) == IF v > 0 THEN v - 1 ELSE IF v < 0 THEN v + 1 ELSE 0

\* scipy.signal.resample_poly(x, up, down): ceil(len(x) * up / down) output samples.
\* The FIR kernel is outside the repository; output sample k is taken from the
\* input sample at the same instant (position k * down / up), which keeps the length
\* law and the dependence on position the callers rely on.
resample_poly(x, up, down) ==
    [k \in 1 .. Ceil(Len(x) * up, down) |-> x[(((k - 1) * down) \div up) + 1]]

\* _resample_pcm16_sync (also resample_pcm16, which runs it in a worker thread)
resample_pcm16(pcm16, rin, rout) ==
    IF pcm16 = <<>> THEN <<>>
    ELSE LET y == resample_poly(SamplesOf(pcm16), UpOf(rin, rout), DownOf(rin, rout))
         IN BytesOf([k \in 1 .. Len(y) |-> ToInt16(y[k])])

\* the last n elements of s (s itself when it has no more than n)
LastN(s, n) == IF Len(s) > n THEN SubSeq(s, Len(s) - n + 1, Len(s)) ELSE s

\* a parity step that pads an odd buffer with a zero byte whether flushing or not
EvenPartPadded(joined, flush) ==
    IF Len(joined) % 2 = 0 THEN joined ELSE joined \o <<0>>

\* the even-length part of the joined buffer that is processed: when flushing the
\* odd buffer is padded with a zero byte, otherwise its last byte is held back
EvenPart(joined, flush) ==
    IF Len(joined) % 2 = 0 THEN joined
    ELSE IF flush THEN joined \o <<0>>
    ELSE SubSeq(joined, 1, Len(joined) - 1)

\* a parity step that forgets the byte it held back
OddCarryDropped(joined, flush) == <<>>

\* self.audio_buffer after the parity step
OddCarry(joined, flush) ==
    IF Len(joined) % 2 # 0 /\ ~flush THEN <<joined[Len(joined)]>> ELSE <<>>

\* a call that returns everything resampled, the part derived from the tail included
DropTailNever(out_full, tail_in_len, up, down) == out_full

\* drop the output samples that correspond to the prepended tail
DropTail(out_full, tail_in_len, up, down) ==
    LET tail_out_len == (tail_in_len * up) \div down
    IN IF tail_in_len > 0 /\ tail_out_len > 0 /\ tail_out_len < Len(out_full)
       THEN SubSeq(out_full, tail_out_len + 1, Len(out_full))
       ELSE out_full

\* self._input_tail_f32 for the next call
NewTail(concat_in, tail_len) == IF tail_len > 0 THEN LastN(concat_in, tail_len) ELSE <<>>

\* Resampler.process_chunk(pcm16, flush) in state (buf, tail): the bytes returned
\* and the state left, [out, buf, tail]
process_chunk(buf, tail, pcm16, flush, rin, rout) ==
    LET joined == buf \o pcm16
        pcm == EvenPart(joined, flush)
        carry == OddCarry(joined, flush)
    IN IF pcm = <<>> THEN [out |-> <<>>, buf |-> carry, tail |-> tail]
       ELSE IF rin = rout THEN [out |-> pcm, buf |-> carry, tail |-> tail]
       ELSE
         LET concat_in == tail \o SamplesOf(pcm)
             out_full == SamplesOf(resample_pcm16(
                             BytesOf([k \in 1 .. Len(concat_in) |-> ToInt16(concat_in[k])]),
                             rin, rout))
             out_i16 == DropTail(out_full, Len(tail), UpOf(rin, rout), DownOf(rin, rout))
         IN [out |-> BytesOf(out_i16), buf |-> carry,
             tail |-> NewTail(concat_in, TailLen(rin, rout))]

---------------------------------------------------------------------------
(* State shared by the entry points *)

\* chunks delivered so far, as buffers
OutData == [i \in 1 .. Len(out) |-> out[i].data]

\* the state common to every run before its first step
Fresh ==
    /\ pc = "idle"
    /\ provider_calls = 0
    /\ pulled = <<>>
    /\ first_chunk = <<>>
    /\ rs_pc = "src"
    /\ rs_audio_buffer = <<>>
    /\ input_tail = <<>>
    /\ ck_pc = "run"
    /\ ck_audio_buffer = <<>>
    /\ rs_pending = <<>>
    /\ ck_pending = <<>>
    /\ out = <<>>
    /\ error = "none"
    /\ raised_by = "none"
    /\ result = <<>>
    /\ response = "none"
    /\ enc_in = <<>>

\* the stream has raised into its consumer: every generator of the chain is finished
Fail(e) ==
    /\ error' = e
    /\ raised_by' = "iteration"
    /\ stream' = "error"
    /\ demand' = FALSE

---------------------------------------------------------------------------
(* encode_from_pcm_stream: who is waiting for whom *)

\* the encoder is suspended in `async for audio in generator`
EncWaiting == harness = "stream" /\ stream = "open" /\ demand /\ enc_pc = "run"

\* the consumer of ChunkCollector.process_stream is awaiting its next frame
CkConsumerWaiting == IF harness = "chunker" THEN stream = "open" ELSE EncWaiting

\* a collector built for the native rate, as if chunking came before resampling
ChunkBytesNative == bytes_per_chunk(default_sample_rate, chunk_size)

\* chunk_collector = ChunkCollector(request.sample_rate, request.chunk_size):
\* its bytes_per_chunk
ChunkBytes == bytes_per_chunk(sample_rate, chunk_size)

\* ChunkCollector.process_stream is suspended in `async for pcm16 in pcm16_stream`
CkWaiting ==
    /\ CkConsumerWaiting
    /\ ck_pc = "run"
    /\ ck_pending = <<>>
    /\ ~FrameReady(ck_audio_buffer, ChunkBytes)

\* the consumer of Resampler.process_stream is awaiting its next buffer
RsConsumerWaiting == IF harness = "resampler" THEN stream = "open" ELSE CkWaiting

---------------------------------------------------------------------------
(* Resampler.process_stream *)

\* the loop body: result = await self.process_chunk(pcm16); if result: yield result
RsProcess(c) ==
    LET r == process_chunk(rs_audio_buffer, input_tail, c, FALSE,
                           default_sample_rate, sample_rate)
    IN /\ rs_audio_buffer' = r.buf
       /\ input_tail' = r.tail
       /\ rs_pending' = IF r.out # <<>> THEN <<r.out>> ELSE <<>>

RsReady == RsConsumerWaiting /\ rs_pc = "src" /\ rs_pending = <<>>

\* stream_speak._generator: yield first_chunk
NativeYieldsFirst ==
    /\ RsReady
    /\ first_chunk # <<>>
    /\ RsProcess(first_chunk[1])
    /\ first_chunk' = <<>>
    /\ UNCHANGED <<reqVars, otherVars, enc_in, callVars, provider_calls, pulled, rs_pc, ckVars, demand,
                   ck_pending, enc_pc, out, stream, error, raised_by>>

\* the source (the provider's stream, through _generator) yields its next buffer
SourceYields(n) ==
    /\ RsReady
    /\ first_chunk = <<>>
    /\ Len(pulled) < (IF harness = "stream" THEN MaxChunks ELSE MaxBuffers)
    /\ LET c == SourceBytes(seed, TotalLen(pulled), n)
       IN /\ pulled' = Append(pulled, c)
          /\ RsProcess(c)
    /\ provider_calls' = provider_calls + 1
    /\ UNCHANGED <<reqVars, otherVars, enc_in, callVars, first_chunk, rs_pc, ckVars, demand,
                   ck_pending, enc_pc, out, stream, error, raised_by>>

\* an end of the source that never makes the flush call
SourceEndsNoFlush ==
    /\ RsReady
    /\ first_chunk = <<>>
    /\ provider_calls' = provider_calls + 1
    /\ rs_pc' = "done"
    /\ UNCHANGED <<rs_audio_buffer, input_tail, rs_pending>>
    /\ UNCHANGED <<reqVars, otherVars, enc_in, callVars, pulled, first_chunk, ckVars, demand,
                   ck_pending, enc_pc, out, stream, error, raised_by>>

\* the source is exhausted: flush the odd byte, if one is buffered, and finish
SourceEnds ==
    /\ RsReady
    /\ first_chunk = <<>>
    /\ provider_calls' = provider_calls + 1
    /\ rs_pc' = "done"
    /\ IF rs_audio_buffer # <<>>
       THEN LET r == process_chunk(rs_audio_buffer, input_tail, <<>>, TRUE,
                                   default_sample_rate, sample_rate)
            IN /\ rs_audio_buffer' = r.buf
               /\ input_tail' = r.tail
               /\ rs_pending' = IF r.out # <<>> THEN <<r.out>> ELSE <<>>
       ELSE UNCHANGED <<rs_audio_buffer, input_tail, rs_pending>>
    /\ UNCHANGED <<reqVars, otherVars, enc_in, callVars, pulled, first_chunk, ckVars, demand,
                   ck_pending, enc_pc, out, stream, error, raised_by>>

\* a chain that drains the collector's buffer to the consumer before it raises
SourceFailsFlushing ==
    /\ RsReady
    /\ first_chunk = <<>>
    /\ provider_calls' = provider_calls + 1
    /\ out' = IF ck_audio_buffer # <<>>
              THEN Append(out, [data |-> ck_audio_buffer, final |-> TRUE]) ELSE out
    /\ Fail("provider")
    /\ UNCHANGED <<reqVars, otherVars, enc_in, callVars, pulled, first_chunk, rsVars, ckVars,
                   rs_pending, ck_pending, enc_pc>>

\* the source raises: the exception leaves every `async for` of the chain
SourceFails ==
    /\ RsReady
    /\ first_chunk = <<>>
    /\ provider_calls' = provider_calls + 1
    /\ Fail("provider")
    /\ UNCHANGED <<reqVars, otherVars, enc_in, callVars, pulled, first_chunk, rsVars, ckVars,
                   rs_pending, ck_pending, enc_pc, out>>

---------------------------------------------------------------------------
(* ChunkCollector.process_stream *)

\* `async for pcm16 in pcm16_stream` receives a buffer; collect_chunks appends it
CkReceive ==
    /\ CkWaiting
    /\ rs_pending # <<>>
    /\ ck_audio_buffer' = ck_audio_buffer \o rs_pending[1]
    /\ rs_pending' = <<>>
    /\ UNCHANGED <<reqVars, otherVars, enc_in, callVars, provider_calls, pulled, first_chunk, rsVars, ck_pc,
                   demand, ck_pending, enc_pc, out, stream, error, raised_by>>

\* collect_chunks' loop: yield one whole frame
CkYieldFrame ==
    /\ CkConsumerWaiting
    /\ ck_pc = "run"
    /\ ck_pending = <<>>
    /\ LET n == ChunkBytes
       IN /\ FrameReady(ck_audio_buffer, n)
          /\ ck_pending' = <<[data |-> FrameOf(ck_audio_buffer, n), final |-> FALSE]>>
          /\ ck_audio_buffer' = AfterFrame(ck_audio_buffer, n)
    /\ UNCHANGED <<reqVars, otherVars, enc_in, callVars, provider_calls, pulled, first_chunk, rsVars, ck_pc,
                   demand, rs_pending, enc_pc, out, stream, error, raised_by>>

\* the upstream is exhausted: remaining = self.flush(); if remaining: yield remaining
CkFlush ==
    /\ CkWaiting
    /\ rs_pc = "done"
    /\ rs_pending = <<>>
    /\ LET remaining == ck_flush(ck_audio_buffer)
       IN ck_pending' = IF remaining # <<>>
                        THEN <<[data |-> remaining, final |-> TRUE]>> ELSE <<>>
    /\ ck_audio_buffer' = <<>>
    /\ ck_pc' = "flushed"
    /\ UNCHANGED <<reqVars, otherVars, enc_in, callVars, provider_calls, pulled, first_chunk, rsVars,
                   demand, rs_pending, enc_pc, out, stream, error, raised_by>>

---------------------------------------------------------------------------
(* encode_from_pcm_stream *)

\* first resumption of the generator body: the format check
EncStart ==
    /\ harness = "stream" /\ stream = "open" /\ demand /\ enc_pc = "fresh"
    /\ IF mime_type \in {"WAV", "MP3"}
       THEN Fail("ValueError") /\ UNCHANGED enc_pc
       ELSE enc_pc' = "run" /\ UNCHANGED <<demand, stream, error, raised_by>>
    /\ UNCHANGED <<reqVars, otherVars, enc_in, callVars, provider_calls, pulled, first_chunk, rsVars, ckVars,
                   rs_pending, ck_pending, out>>

\* yield await encode(audio, mime_type)
EncYield ==
    /\ EncWaiting
    /\ ck_pending # <<>>
    /\ LET r == encode(ck_pending[1].data, mime_type)
       IN IF r.err = "none"
          THEN /\ out' = Append(out, [data |-> r.data, final |-> ck_pending[1].final])
               /\ demand' = FALSE
               /\ UNCHANGED <<stream, error, raised_by>>
          ELSE Fail(r.err) /\ UNCHANGED out
    /\ ck_pending' = <<>>
    /\ enc_in' = Append(enc_in, ck_pending[1].data)
    /\ UNCHANGED <<reqVars, otherVars, callVars, provider_calls, pulled, first_chunk,
                   rsVars, ckVars, rs_pending, enc_pc>>

\* the chunked generator is finished: so is the encoded one
EncEnd ==
    /\ EncWaiting
    /\ ck_pc = "flushed"
    /\ ck_pending = <<>>
    /\ stream' = "ended"
    /\ demand' = FALSE
    /\ UNCHANGED <<reqVars, otherVars, enc_in, callVars, provider_calls, pulled, first_chunk, rsVars, ckVars,
                   rs_pending, ck_pending, enc_pc, out, error, raised_by>>

---------------------------------------------------------------------------
(* AudioAIService.stream_speak and the consumer of the stream it returns *)

\* generator = self.stream_text2speech(...); first_chunk = await generator.__anext__()
\* and the rest of the call, which only builds the generators
StreamSpeakFirstChunk(n) ==
    /\ harness = "stream" /\ pc = "idle"
    /\ provider_calls' = provider_calls + 1
    /\ LET c == SourceBytes(seed, 0, n)
       IN /\ first_chunk' = <<c>>
          /\ pulled' = <<c>>
    /\ pc' = "returned"
    /\ stream' = "open"
    /\ response' = [content_type |-> MimeValue(mime_type), sample_rate |-> sample_rate]
    /\ UNCHANGED <<reqVars, otherVars, enc_in, result, rsVars, ckVars, demand, rs_pending, ck_pending,
                   enc_pc, out, error, raised_by>>

\* a stream_speak without the except clause: StopAsyncIteration leaves the call
StreamSpeakEmptyRaises ==
    /\ harness = "stream" /\ pc = "idle"
    /\ provider_calls' = provider_calls + 1
    /\ pc' = "raised"
    /\ UNCHANGED <<reqVars, otherVars, enc_in, result, response, pulled, first_chunk, rsVars, ckVars, demand,
                   rs_pending, ck_pending, enc_pc, out, stream, error, raised_by>>

\* the provider stream ends at once: except StopAsyncIteration returns empty_generator()
StreamSpeakEmpty ==
    /\ harness = "stream" /\ pc = "idle"
    /\ provider_calls' = provider_calls + 1
    /\ pc' = "returned"
    /\ stream' = "empty"
    /\ response' = [content_type |-> MimeValue(mime_type), sample_rate |-> sample_rate]
    /\ UNCHANGED <<reqVars, otherVars, enc_in, result, pulled, first_chunk, rsVars, ckVars, demand,
                   rs_pending, ck_pending, enc_pc, out, error, raised_by>>

\* a stream_speak that returns the stream before pulling: the failure of the first
\* chunk reaches the consumer of the stream
StreamSpeakFirstFailsLazy ==
    /\ harness = "stream" /\ pc = "idle"
    /\ provider_calls' = provider_calls + 1
    /\ pc' = "returned"
    /\ response' = [content_type |-> MimeValue(mime_type), sample_rate |-> sample_rate]
    /\ stream' = "error"
    /\ error' = "provider"
    /\ raised_by' = "iteration"
    /\ UNCHANGED <<reqVars, otherVars, enc_in, result, pulled, first_chunk, rsVars, ckVars, demand,
                   rs_pending, ck_pending, enc_pc, out>>

\* the provider raises while producing its first chunk: stream_speak raises
StreamSpeakFirstFails ==
    /\ harness = "stream" /\ pc = "idle"
    /\ provider_calls' = provider_calls + 1
    /\ pc' = "raised"
    /\ error' = "provider"
    /\ raised_by' = "call"
    /\ UNCHANGED <<reqVars, otherVars, enc_in, result, response, pulled, first_chunk, rsVars, ckVars, demand,
                   rs_pending, ck_pending, enc_pc, out, stream>>

\* the consumer calls __anext__ on the stream it was handed
ConsumerPull ==
    /\ harness = "stream" /\ pc = "returned"
    /\ stream \in {"open", "empty", "empty_yielded"}
    /\ ~demand
    /\ demand' = TRUE
    /\ UNCHANGED <<reqVars, otherVars, enc_in, callVars, provider_calls, pulled, first_chunk, rsVars, ckVars,
                   rs_pending, ck_pending, enc_pc, out, stream, error, raised_by>>

\* empty_generator: yield b""
EmptyYield ==
    /\ stream = "empty" /\ demand
    /\ out' = Append(out, [data |-> <<>>, final |-> TRUE])
    /\ stream' = "empty_yielded"
    /\ demand' = FALSE
    /\ UNCHANGED <<reqVars, otherVars, enc_in, callVars, provider_calls, pulled, first_chunk, rsVars, ckVars,
                   rs_pending, ck_pending, enc_pc, error, raised_by>>

\* empty_generator returns
EmptyEnd ==
    /\ stream = "empty_yielded" /\ demand
    /\ stream' = "ended"
    /\ demand' = FALSE
    /\ UNCHANGED <<reqVars, otherVars, enc_in, callVars, provider_calls, pulled, first_chunk, rsVars, ckVars,
                   rs_pending, ck_pending, enc_pc, out, error, raised_by>>

---------------------------------------------------------------------------
(* AudioAIService.speak *)

\* audio = await self.text2speech(...)
SpeakText2Speech(n) ==
    /\ harness = "speak" /\ pc = "idle"
    /\ provider_calls' = provider_calls + 1
    /\ LET audio == SourceBytes(seed, 0, n)
       IN /\ pulled' = <<audio>>
          /\ result' = audio
    /\ pc' = "resample"
    /\ UNCHANGED <<reqVars, otherVars, enc_in, response, first_chunk, rsVars, ckVars, demand, rs_pending, ck_pending,
                   enc_pc, out, stream, error, raised_by>>

\* text2speech raises
SpeakText2SpeechFails ==
    /\ harness = "speak" /\ pc = "idle"
    /\ provider_calls' = provider_calls + 1
    /\ pc' = "raised"
    /\ error' = "provider"
    /\ raised_by' = "call"
    /\ UNCHANGED <<reqVars, otherVars, enc_in, result, response, pulled, first_chunk, rsVars, ckVars, demand,
                   rs_pending, ck_pending, enc_pc, out, stream>>

\* audio = await resampler.process_chunk(audio, flush=True)
SpeakResample ==
    /\ harness = "speak" /\ pc = "resample"
    /\ LET r == process_chunk(rs_audio_buffer, input_tail, result, TRUE,
                              default_sample_rate, sample_rate)
       IN /\ result' = r.out
          /\ rs_audio_buffer' = r.buf
          /\ input_tail' = r.tail
    /\ pc' = "encode"
    /\ UNCHANGED <<reqVars, otherVars, enc_in, response, provider_calls, pulled, first_chunk, rs_pc, ckVars, demand,
                   rs_pending, ck_pending, enc_pc, out, stream, error, raised_by>>

\* audio = await encode(audio, request.mime_type); return SpeakResponse(...)
SpeakEncode ==
    /\ harness = "speak" /\ pc = "encode"
    /\ LET r == encode(result, mime_type)
       IN IF r.err = "none"
          THEN /\ result' = r.data
               /\ pc' = "returned"
               /\ response' = [content_type |-> MimeValue(mime_type),
                               sample_rate |-> sample_rate]
               /\ UNCHANGED <<error, raised_by>>
          ELSE /\ pc' = "raised"
               /\ error' = r.err
               /\ raised_by' = "call"
               /\ UNCHANGED <<result, response>>
    /\ UNCHANGED <<reqVars, otherVars, enc_in, provider_calls, pulled, first_chunk, rsVars, ckVars, demand,
                   rs_pending, ck_pending, enc_pc, out, stream>>

---------------------------------------------------------------------------
(* The pipeline: one speak or stream_speak request *)

Init ==
    /\ harness \in {"speak", "stream"}
    /\ mime_type \in MimeTypes
    /\ sample_rate \in ModelRates
    /\ chunk_size \in (IF harness = "stream" THEN ModelChunkSizes ELSE {20})
    /\ default_sample_rate \in NativeRates
    /\ seed \in 0 .. MaxSeed
    /\ Fresh
    /\ demand = FALSE
    /\ enc_pc = "fresh"
    /\ stream = "none"
    /\ OtherIdle

Next ==
    \/ \E n \in BufferLens(chunk_size) : StreamSpeakFirstChunk(n)
    \/ StreamSpeakEmpty
    \/ StreamSpeakFirstFails
    \/ ConsumerPull
    \/ EmptyYield
    \/ EmptyEnd
    \/ EncStart
    \/ EncYield
    \/ EncEnd
    \/ CkReceive
    \/ CkYieldFrame
    \/ CkFlush
    \/ NativeYieldsFirst
    \/ \E n \in BufferLens(chunk_size) : SourceYields(n)
    \/ SourceEnds
    \/ SourceFails
    \/ \E n \in BufferLens(chunk_size) : SpeakText2Speech(n)
    \/ SpeakText2SpeechFails
    \/ SpeakResample
    \/ SpeakEncode

Spec == Init /\ [][Next]_vars

---------------------------------------------------------------------------
(* ChunkCollector.process_stream driven on its own: any upstream, a consumer
   that takes every frame *)

UpstreamYields(n) ==
    /\ harness = "chunker"
    /\ CkWaiting
    /\ rs_pc = "src" /\ rs_pending = <<>>
    /\ Len(pulled) < MaxBuffers
    /\ LET c == SourceBytes(seed, TotalLen(pulled), n)
       IN /\ pulled' = Append(pulled, c)
          /\ rs_pending' = <<c>>
    /\ UNCHANGED <<reqVars, otherVars, enc_in, callVars, provider_calls, first_chunk, rsVars, ckVars, demand,
                   ck_pending, enc_pc, out, stream, error, raised_by>>

UpstreamEnds ==
    /\ harness = "chunker"
    /\ CkWaiting
    /\ rs_pc = "src" /\ rs_pending = <<>>
    /\ rs_pc' = "done"
    /\ UNCHANGED <<reqVars, otherVars, enc_in, callVars, provider_calls, pulled, first_chunk, rs_audio_buffer,
                   input_tail, ckVars, demand, rs_pending, ck_pending, enc_pc, out, stream,
                   error, raised_by>>

CkTake ==
    /\ harness = "chunker"
    /\ ck_pending # <<>>
    /\ out' = Append(out, ck_pending[1])
    /\ ck_pending' = <<>>
    /\ UNCHANGED <<reqVars, otherVars, enc_in, callVars, provider_calls, pulled, first_chunk, rsVars, ckVars,
                   demand, rs_pending, enc_pc, stream, error, raised_by>>

CkDone ==
    /\ harness = "chunker"
    /\ stream = "open" /\ ck_pc = "flushed" /\ ck_pending = <<>>
    /\ stream' = "ended"
    /\ UNCHANGED <<reqVars, otherVars, enc_in, callVars, provider_calls, pulled, first_chunk, rsVars, ckVars,
                   demand, rs_pending, ck_pending, enc_pc, out, error, raised_by>>

InitChunker ==
    /\ harness = "chunker"
    /\ mime_type = "PCM"
    /\ sample_rate \in ModelRates
    /\ chunk_size \in ModelChunkSizes
    /\ default_sample_rate = sample_rate
    /\ seed \in 0 .. MaxSeed
    /\ Fresh
    /\ demand = TRUE
    /\ enc_pc = "run"
    /\ stream = "open"
    /\ OtherIdle

NextChunker ==
    \/ \E n \in BufferLens(chunk_size) : UpstreamYields(n)
    \/ UpstreamEnds
    \/ CkReceive
    \/ CkYieldFrame
    \/ CkFlush
    \/ CkTake
    \/ CkDone

SpecChunker == InitChunker /\ [][NextChunker]_vars

---------------------------------------------------------------------------
(* Resampler driven on its own: process_stream over any source, or direct
   process_chunk calls ending with a flush call *)

\* a direct call process_chunk(c, flush=True), the last call on the instance
RsFlushCall(n) ==
    /\ harness = "resampler"
    /\ RsReady
    /\ Len(pulled) < MaxBuffers
    /\ LET c == SourceBytes(seed, TotalLen(pulled), n)
           r == process_chunk(rs_audio_buffer, input_tail, c, TRUE,
                              default_sample_rate, sample_rate)
       IN /\ pulled' = Append(pulled, c)
          /\ rs_audio_buffer' = r.buf
          /\ input_tail' = r.tail
          /\ rs_pending' = IF r.out # <<>> THEN <<r.out>> ELSE <<>>
    /\ rs_pc' = "done"
    /\ UNCHANGED <<reqVars, otherVars, enc_in, callVars, provider_calls, first_chunk, ckVars, demand,
                   ck_pending, enc_pc, out, stream, error, raised_by>>

RsTake ==
    /\ harness = "resampler"
    /\ rs_pending # <<>>
    /\ out' = Append(out, [data |-> rs_pending[1], final |-> rs_pc = "done"])
    /\ rs_pending' = <<>>
    /\ UNCHANGED <<reqVars, otherVars, enc_in, callVars, provider_calls, pulled, first_chunk, rsVars, ckVars,
                   demand, ck_pending, enc_pc, stream, error, raised_by>>

RsDone ==
    /\ harness = "resampler"
    /\ stream = "open" /\ rs_pc = "done" /\ rs_pending = <<>>
    /\ stream' = "ended"
    /\ UNCHANGED <<reqVars, otherVars, enc_in, callVars, provider_calls, pulled, first_chunk, rsVars, ckVars,
                   demand, rs_pending, ck_pending, enc_pc, out, error, raised_by>>

InitResampler ==
    /\ harness = "resampler"
    /\ mime_type = "PCM"
    /\ default_sample_rate \in ModelRates
    /\ sample_rate \in ModelRates
    /\ chunk_size = 1     \* unused by the Resampler: it only scales the lengths tried
    /\ seed \in 0 .. MaxSeed
    /\ Fresh
    /\ demand = TRUE
    /\ enc_pc = "run"
    /\ stream = "open"
    /\ OtherIdle

NextResampler ==
    \/ \E n \in BufferLens(chunk_size) : SourceYields(n)
    \/ SourceEnds
    \/ SourceFails
    \/ \E n \in BufferLens(chunk_size) : RsFlushCall(n)
    \/ RsTake
    \/ RsDone

SpecResampler == InitResampler /\ [][NextResampler]_vars

---------------------------------------------------------------------------
(* The failure-free run of the streaming chain over given source buffers *)

RECURSIVE RefResampled(_, _, _, _, _)
\* every byte Resampler.process_stream yields over `chunks`, started in (buf, tail),
\* the final flush included
RefResampled(chunks, buf, tail, rin, rout) ==
    IF chunks = <<>>
    THEN IF buf # <<>> THEN process_chunk(buf, tail, <<>>, TRUE, rin, rout).out ELSE <<>>
    ELSE LET r == process_chunk(buf, tail, Head(chunks), FALSE, rin, rout)
         IN r.out \o RefResampled(Tail(chunks), r.buf, r.tail, rin, rout)

RECURSIVE RefFrames(_, _)
\* the frames ChunkCollector.process_stream yields over `bytes`, the final one included
RefFrames(bytes, n) ==
    IF Len(bytes) >= n THEN <<FrameOf(bytes, n)>> \o RefFrames(AfterFrame(bytes, n), n)
    ELSE IF bytes # <<>> THEN <<bytes>> ELSE <<>>

\* the chunks a consumer receives from stream_speak's stream when the source yields
\* `chunks` and then ends
RefStream(chunks) ==
    LET fr == RefFrames(RefResampled(chunks, <<>>, <<>>, default_sample_rate, sample_rate),
                        bytes_per_chunk(sample_rate, chunk_size))
    IN [i \in 1 .. Len(fr) |-> encode(fr[i], mime_type).data]

---------------------------------------------------------------------------
(* Codecs: audioop.ulaw2lin / alaw2lin as called by decode *)

RECURSIVE Pow2(_)
Pow2(n) == IF n = 0 THEN 1 ELSE 2 * Pow2(n - 1)

\* the expansion without the removal of the bias of 132
Ulaw2LinSampleBiased(code) ==
    LET u == 255 - code
        t == ((u % 16) * 8 + 132) * Pow2((u \div 16) % 8)
    IN IF u >= 128 THEN -t ELSE t

\* st_ulaw2linear16: the 16-bit sample of a mu-law byte
Ulaw2LinSample(code) ==
    LET u == 255 - code
        t == ((u % 16) * 8 + 132) * Pow2((u \div 16) % 8)
    IN IF u >= 128 THEN 132 - t ELSE t - 132

\* st_alaw2linear16: the 16-bit sample of an A-law byte
Alaw2LinSample(code) ==
    LET a == XorBits(code, 85, 8)
        seg == (a \div 16) % 8
        m == (a % 16) * 16
        t == IF seg = 0 THEN m + 8
             ELSE IF seg = 1 THEN m + 264
             ELSE (m + 264) * Pow2(seg - 1)
    IN IF a >= 128 THEN t ELSE -t

\* audioop.ulaw2lin(audio, 2): two bytes per input byte
ulaw2lin(audio) == BytesOf([i \in 1 .. Len(audio) |-> Ulaw2LinSample(audio[i])])

alaw2lin(audio) == BytesOf([i \in 1 .. Len(audio) |-> Alaw2LinSample(audio[i])])

\* a decode that hands the caller's bytes on as they are
decode_passthrough(audio, mime) == Ok(audio)

\* decode(audio, mime_type)
decode(audio, mime) ==
    CASE mime = "PCM" -> Ok(audio)
      [] mime = "ULAW" -> Ok(ulaw2lin(audio))
      [] mime = "ALAW" -> Ok(alaw2lin(audio))
      [] OTHER -> Raise("ValueError")

---------------------------------------------------------------------------
(* AudioRealtimeTranscriptionService.realtime_transcribe over the OpenAI service:
   the send task pulls caller source -> decode_into_pcm_stream ->
   Resampler.process_stream -> send_audio_chunk; the receive task forwards the
   provider's transcriptions to audio_sink; asyncio.gather joins them *)

\* most transcriptions the provider produces in one session
MaxTurns == 1

\* input_sample_rate values tried; the provider's rate is 24000
CallerRates == {8000, 16000, 48000}
\* input_audio_format values tried; WAV stands for the formats decode refuses
CallerFormats == {"PCM", "ULAW", "ALAW", "WAV"}
\* lengths of the caller's chunks: empty, short, and longer than the Resampler's tail
CallerChunkLens == {0, 1, 2, 31}

TaskNames == {"send", "receive"}

\* the state the orchestrator and the WebSocket endpoint never touch
rtUnused == <<reqVars, callVars, provider_calls, first_chunk, ckVars, demand, ck_pending,
              enc_pc, out, stream, raised_by, enc_in, fbVars, valVars, reqs, codecVars,
              mgrVars>>

\* every variable of the speak / stream_speak pipeline at rest, under entry point h
PipelineIdle(h) ==
    /\ harness = h
    /\ mime_type = "PCM"
    /\ sample_rate = 24000
    /\ chunk_size = 20
    /\ default_sample_rate = 24000
    /\ seed = 0
    /\ Fresh
    /\ demand = FALSE
    /\ enc_pc = "fresh"
    /\ stream = "none"

\* np.frombuffer(chunk, dtype=np.int16) on an object of the given kind: a bytes
\* object of even length is accepted, one of odd length raises ValueError, and an
\* object that is not a buffer raises TypeError
FromBuffer(kind, data) ==
    IF kind # "bytes" THEN "TypeError"
    ELSE IF Len(data) % 2 # 0 THEN "ValueError"
    ELSE "none"

\* task t exists and is in state st
TaskIs(t, st) == t \in DOMAIN tasks /\ tasks[t] = st

\* send_task = create_task(...); receive_task = create_task(...); await gather(...)
RtStart ==
    /\ rt_pc = "idle"
    /\ tasks' = [t \in TaskNames |-> "running"]
    /\ rt_pc' = "gather"
    /\ UNCHANGED <<rtUnused, wsVars, input_audio_format, input_sample_rate, provider_input,
                   sink, pulled, rsVars, rs_pending, error>>

\* the send task is suspended in the caller's audio source
RtSendPulling ==
    /\ rt_pc # "idle"
    /\ TaskIs("send", "running")
    /\ rs_pc = "src"
    /\ rs_pending = <<>>

\* the caller's source yields a chunk: decode, then Resampler.process_chunk
RtSourceYields(n) ==
    /\ RtSendPulling
    /\ Len(pulled) < MaxBuffers
    /\ LET c == SourceBytes(seed, TotalLen(pulled), n)
           d == decode(c, input_audio_format)
       IN /\ pulled' = Append(pulled, c)
          /\ IF d.err # "none"
             THEN /\ tasks' = [tasks EXCEPT !["send"] = "failed"]
                  /\ error' = d.err
                  /\ UNCHANGED <<rs_audio_buffer, input_tail, rs_pending>>
             ELSE LET r == process_chunk(rs_audio_buffer, input_tail, d.data, FALSE,
                                         input_sample_rate, default_sample_rate)
                  IN /\ rs_audio_buffer' = r.buf
                     /\ input_tail' = r.tail
                     /\ rs_pending' = IF r.out # <<>> THEN <<r.out>> ELSE <<>>
                     /\ UNCHANGED <<tasks, error>>
    /\ UNCHANGED <<rtUnused, wsVars, input_audio_format, input_sample_rate, rt_pc,
                   provider_input, sink, rs_pc>>

\* the caller's source is exhausted: the Resampler flushes its odd byte, if any
RtSourceEnds ==
    /\ RtSendPulling
    /\ rs_pc' = "done"
    /\ IF rs_audio_buffer # <<>>
       THEN LET r == process_chunk(rs_audio_buffer, input_tail, <<>>, TRUE,
                                   input_sample_rate, default_sample_rate)
            IN /\ rs_audio_buffer' = r.buf
               /\ input_tail' = r.tail
               /\ rs_pending' = IF r.out # <<>> THEN <<r.out>> ELSE <<>>
       ELSE UNCHANGED <<rs_audio_buffer, input_tail, rs_pending>>
    /\ UNCHANGED <<rtUnused, wsVars, input_audio_format, input_sample_rate, rt_pc, tasks,
                   provider_input, sink, pulled, error>>

\* the caller's source raises: the exception ends the send task
RtSourceFails ==
    /\ RtSendPulling
    /\ tasks' = [tasks EXCEPT !["send"] = "failed"]
    /\ error' = "source"
    /\ UNCHANGED <<rtUnused, wsVars, input_audio_format, input_sample_rate, rt_pc,
                   provider_input, sink, pulled, rsVars, rs_pending>>

\* send_audio_chunk's loop body: frombuffer, then add_audio; a buffer frombuffer
\* refuses is logged and skipped
RtSendAudio ==
    /\ TaskIs("send", "running")
    /\ rs_pending # <<>>
    /\ provider_input' = IF FromBuffer("bytes", rs_pending[1]) = "none"
                         THEN Append(provider_input, rs_pending[1]) ELSE provider_input
    /\ rs_pending' = <<>>
    /\ UNCHANGED <<rtUnused, wsVars, input_audio_format, input_sample_rate, rt_pc, tasks,
                   sink, pulled, rsVars, error>>

\* add_audio raises something other than ValueError / TypeError
RtSendFails ==
    /\ TaskIs("send", "running")
    /\ rs_pending # <<>>
    /\ rs_pending' = <<>>
    /\ tasks' = [tasks EXCEPT !["send"] = "failed"]
    /\ error' = "provider"
    /\ UNCHANGED <<rtUnused, wsVars, input_audio_format, input_sample_rate, rt_pc,
                   provider_input, sink, pulled, rsVars>>

\* the resampled source is exhausted: send_audio_chunk returns
RtSendDone ==
    /\ TaskIs("send", "running")
    /\ rs_pc = "done"
    /\ rs_pending = <<>>
    /\ tasks' = [tasks EXCEPT !["send"] = "done"]
    /\ UNCHANGED <<rtUnused, wsVars, input_audio_format, input_sample_rate, rt_pc,
                   provider_input, sink, pulled, rsVars, rs_pending, error>>

\* receive_audio_chunk: the provider yields a transcription, audio_sink takes it
RtProviderTurn ==
    /\ TaskIs("receive", "running")
    /\ sink < MaxTurns
    /\ sink' = sink + 1
    /\ UNCHANGED <<rtUnused, wsVars, input_audio_format, input_sample_rate, rt_pc, tasks,
                   provider_input, pulled, rsVars, rs_pending, error>>

\* the provider's transcription stream ends: receive_audio_chunk returns
RtReceiveEnds ==
    /\ TaskIs("receive", "running")
    /\ tasks' = [tasks EXCEPT !["receive"] = "done"]
    /\ UNCHANGED <<rtUnused, wsVars, input_audio_format, input_sample_rate, rt_pc,
                   provider_input, sink, pulled, rsVars, rs_pending, error>>

\* the provider's stream or audio_sink raises
RtReceiveFails ==
    /\ TaskIs("receive", "running")
    /\ tasks' = [tasks EXCEPT !["receive"] = "failed"]
    /\ error' = "provider"
    /\ UNCHANGED <<rtUnused, wsVars, input_audio_format, input_sample_rate, rt_pc,
                   provider_input, sink, pulled, rsVars, rs_pending>>

\* gather: both tasks have returned
RtGatherReturns ==
    /\ rt_pc = "gather"
    /\ \A t \in TaskNames : tasks[t] = "done"
    /\ rt_pc' = "returned"
    /\ UNCHANGED <<rtUnused, wsVars, input_audio_format, input_sample_rate, tasks,
                   provider_input, sink, pulled, rsVars, rs_pending, error>>

\* an except block that re-raises and leaves the other task alone
RtGatherRaisesNoCancel ==
    /\ rt_pc = "gather"
    /\ \E t \in TaskNames : tasks[t] = "failed"
    /\ rt_pc' = "raised"
    /\ UNCHANGED <<rtUnused, wsVars, input_audio_format, input_sample_rate, tasks,
                   provider_input, sink, pulled, rsVars, rs_pending, error>>

\* gather raises the first failure; except Exception: task.cancel() for every task
\* that is not done; raise
RtGatherRaises ==
    /\ rt_pc = "gather"
    /\ \E t \in TaskNames : tasks[t] = "failed"
    /\ tasks' = [t \in TaskNames |-> IF tasks[t] = "running" THEN "cancelling" ELSE tasks[t]]
    /\ rt_pc' = "raised"
    /\ UNCHANGED <<rtUnused, wsVars, input_audio_format, input_sample_rate,
                   provider_input, sink, pulled, rsVars, rs_pending, error>>

\* the caller cancels realtime_transcribe while it awaits gather.  A gather that is
\* still pending cancels its children and raises CancelledError once they have ended;
\* a gather that has already completed only lets CancelledError through, which
\* `except Exception` does not catch
RtCancel ==
    /\ rt_pc = "gather"
    /\ IF (\E t \in TaskNames : tasks[t] = "failed") \/ (\A t \in TaskNames : tasks[t] = "done")
       THEN rt_pc' = "cancelled" /\ UNCHANGED tasks
       ELSE /\ rt_pc' = "cancelling"
            /\ tasks' = [t \in TaskNames |->
                            IF tasks[t] = "running" THEN "cancelling" ELSE tasks[t]]
    /\ UNCHANGED <<rtUnused, wsVars, input_audio_format, input_sample_rate,
                   provider_input, sink, pulled, rsVars, rs_pending, error>>

\* the cancelled gather has seen its children end: CancelledError reaches the caller
RtCancelled ==
    /\ rt_pc = "cancelling"
    /\ \A t \in TaskNames : tasks[t] \notin {"running", "cancelling"}
    /\ rt_pc' = "cancelled"
    /\ UNCHANGED <<rtUnused, wsVars, input_audio_format, input_sample_rate, tasks,
                   provider_input, sink, pulled, rsVars, rs_pending, error>>

\* the event loop throws CancelledError into a task whose cancellation was requested;
\* neither path catches it
TaskCancelDelivered(t) ==
    /\ TaskIs(t, "cancelling")
    /\ tasks' = [tasks EXCEPT ![t] = "cancelled"]
    /\ UNCHANGED <<rtUnused, wsVars, input_audio_format, input_sample_rate, rt_pc,
                   provider_input, sink, pulled, rsVars, rs_pending, error>>

InitRealtime ==
    /\ PipelineIdle("realtime")
    /\ input_audio_format \in CallerFormats
    /\ input_sample_rate \in CallerRates
    /\ rt_pc = "idle"
    /\ provider_input = <<>>
    /\ sink = 0
    /\ tasks = <<>>
    /\ WsIdle /\ FallbackIdle /\ ValidationIdle /\ reqs = <<>> /\ CodecIdle
    /\ ManagersIdle

\* the steps the event loop takes by itself
RtLoopStep ==
    \/ RtStart
    \/ RtSendAudio
    \/ RtSendDone
    \/ RtGatherReturns
    \/ RtGatherRaises
    \/ RtCancelled
    \/ \E t \in TaskNames : TaskCancelDelivered(t)

\* the steps of the caller and of the provider
RtEnvStep ==
    \/ \E n \in CallerChunkLens : RtSourceYields(n)
    \/ RtSourceEnds
    \/ RtSourceFails
    \/ RtSendFails
    \/ RtProviderTurn
    \/ RtReceiveEnds
    \/ RtReceiveFails
    \/ RtCancel

NextRealtime == RtLoopStep \/ RtEnvStep

SpecRealtime == InitRealtime /\ [][NextRealtime]_vars

\* the event loop runs every step that is ready; the caller and the provider are
\* free to stay silent
SpecRealtimeFair == SpecRealtime /\ WF_vars(RtLoopStep)

---------------------------------------------------------------------------
(* transcription_websocket_endpoint: the WebSocket session around a realtime
   transcription service.  Three tasks: receive_from_client ("receive"),
   receive_from_provider ("provider"), send_to_client ("send") *)

WsTaskNames == {"receive", "provider", "send"}

\* the order of the finally block's loop
CleanupOrder == <<"receive", "provider", "send">>

\* the init message's input_audio_format and input_sample_rate values tried
WsFormats == {"PCM", "ULAW"}
WsRates == {8000}
\* lengths of the client's audio chunks
WsChunkLens == {0, 2}

\* the state the endpoint never touches
wsFixed == <<rtUnused, rsVars, rs_pending, input_audio_format, input_sample_rate, rt_pc, sink>>

\* the init message is invalid, or create_service raises: the endpoint reports it and
\* returns; no service exists in the finally block
WsInitRejected ==
    /\ ws_pc = "accepted"
    /\ ws_pc' = "finally"
    /\ UNCHANGED <<wsFixed, tasks, ws_done, ws_pending, ws_awaiting, ws_cleanup, client_state,
                   session, disconnect_calls, pulled, provider_input, error>>

\* service.connect() raises: the endpoint reports it and returns
WsConnectFails ==
    /\ ws_pc = "accepted"
    /\ session' = "created"
    /\ ws_pc' = "finally"
    /\ UNCHANGED <<wsFixed, tasks, ws_done, ws_pending, ws_awaiting, ws_cleanup, client_state,
                   disconnect_calls, pulled, provider_input, error>>

\* init accepted, service created, service.connect() succeeded
WsConnect ==
    /\ ws_pc = "accepted"
    /\ session' = "open"
    /\ ws_pc' = "connected"
    /\ UNCHANGED <<wsFixed, tasks, ws_done, ws_pending, ws_awaiting, ws_cleanup, client_state,
                   disconnect_calls, pulled, provider_input, error>>

\* the success message cannot be sent: the client has gone
WsSendSuccessFails ==
    /\ ws_pc = "connected"
    /\ client_state' = "DISCONNECTED"
    /\ error' = "WebSocketDisconnect"
    /\ ws_pc' = "finally"
    /\ UNCHANGED <<wsFixed, tasks, ws_done, ws_pending, ws_awaiting, ws_cleanup, session,
                   disconnect_calls, pulled, provider_input>>

\* the three tasks are created; await asyncio.wait(..., FIRST_COMPLETED)
WsStartTasks ==
    /\ ws_pc = "connected"
    /\ tasks' = [t \in WsTaskNames |-> "running"]
    /\ ws_pc' = "wait"
    /\ UNCHANGED <<wsFixed, ws_done, ws_pending, ws_awaiting, ws_cleanup, client_state, session,
                   disconnect_calls, pulled, provider_input, error>>

\* the client sends {"audio": base64 of n bytes}: audio_generator yields the validated
\* TranscriptionAudioChunkWsRequest to service.send_audio_chunk, whose loop body
\* logs and skips what np.frombuffer refuses
WsClientAudio(n) ==
    /\ TaskIs("receive", "running")
    /\ client_state = "CONNECTED"
    /\ Len(pulled) < MaxChunks
    /\ LET c == SourceBytes(seed, TotalLen(pulled), n)
       IN /\ pulled' = Append(pulled, c)
          /\ provider_input' =
                IF FromBuffer("TranscriptionAudioChunkWsRequest", c) = "none"
                THEN Append(provider_input, c) ELSE provider_input
    /\ UNCHANGED <<wsFixed, wsVars, tasks, error>>

\* the client sends an "audio" that is not base64: model_validate raises in
\* audio_generator, which ends the task
WsClientBadAudio ==
    /\ TaskIs("receive", "running")
    /\ client_state = "CONNECTED"
    /\ tasks' = [tasks EXCEPT !["receive"] = "failed"]
    /\ error' = "ValidationError"
    /\ UNCHANGED <<wsFixed, wsVars, pulled, provider_input>>

\* the client sends {"type": "close"}: audio_generator ends, send_audio_chunk returns
WsClientClose ==
    /\ TaskIs("receive", "running")
    /\ client_state = "CONNECTED"
    /\ tasks' = [tasks EXCEPT !["receive"] = "done"]
    /\ UNCHANGED <<wsFixed, wsVars, pulled, provider_input, error>>

\* the client disconnects: receive_json raises WebSocketDisconnect, which
\* receive_from_client catches
WsClientDisconnect ==
    /\ ws_pc \in {"wait", "cancel_pending", "finally"}
    /\ client_state = "CONNECTED"
    /\ client_state' = "DISCONNECTED"
    /\ tasks' = IF TaskIs("receive", "running")
                THEN [tasks EXCEPT !["receive"] = "done"] ELSE tasks
    /\ UNCHANGED <<wsFixed, ws_pc, ws_done, ws_pending, ws_awaiting, ws_cleanup, session,
                   disconnect_calls, pulled, provider_input, error>>

\* send_to_client: the queue read times out and the client is no longer connected
WsSendTimeout ==
    /\ TaskIs("send", "running")
    /\ client_state # "CONNECTED"
    /\ tasks' = [tasks EXCEPT !["send"] = "done"]
    /\ UNCHANGED <<wsFixed, wsVars, pulled, provider_input, error>>

\* the provider yields a transcription: receive_audio_chunk awaits
\* audio_sink(transcription), and audio_sink is an asyncio.Queue, which is not callable
WsProviderTurn ==
    /\ TaskIs("provider", "running")
    /\ tasks' = [tasks EXCEPT !["provider"] = "failed"]
    /\ error' = "TypeError"
    /\ UNCHANGED <<wsFixed, wsVars, pulled, provider_input>>

\* the provider's transcription stream ends
WsProviderEnds ==
    /\ TaskIs("provider", "running")
    /\ tasks' = [tasks EXCEPT !["provider"] = "done"]
    /\ UNCHANGED <<wsFixed, wsVars, pulled, provider_input, error>>

\* the provider's transcription stream raises
WsProviderFails ==
    /\ TaskIs("provider", "running")
    /\ tasks' = [tasks EXCEPT !["provider"] = "failed"]
    /\ error' = "provider"
    /\ UNCHANGED <<wsFixed, wsVars, pulled, provider_input>>

\* asyncio.wait returns: done, pending as the tasks are now
WsWaitReturns ==
    /\ ws_pc = "wait"
    /\ \E t \in WsTaskNames : tasks[t] \in {"done", "failed"}
    /\ ws_done' = {t \in WsTaskNames : tasks[t] \in {"done", "failed"}}
    /\ ws_pending' = {t \in WsTaskNames : tasks[t] = "running"}
    /\ ws_pc' = "cancel_pending"
    /\ UNCHANGED <<wsFixed, tasks, ws_awaiting, ws_cleanup, client_state, session,
                   disconnect_calls, pulled, provider_input, error>>

\* for task in pending: task.cancel(); await task.  A task that has ended since is
\* left as it is: awaiting it returns, or raises its exception into the endpoint
WsCancelPending(t) ==
    /\ ws_pc = "cancel_pending"
    /\ ws_awaiting = <<>>
    /\ t \in ws_pending
    /\ CASE tasks[t] = "running" ->
                /\ tasks' = [tasks EXCEPT ![t] = "cancelling"]
                /\ ws_awaiting' = <<t>>
                /\ UNCHANGED <<ws_pending, ws_pc>>
         [] tasks[t] = "failed" ->
                /\ ws_pc' = "finally"
                /\ UNCHANGED <<tasks, ws_awaiting, ws_pending>>
         [] OTHER ->
                /\ ws_pending' = ws_pending \ {t}
                /\ UNCHANGED <<tasks, ws_awaiting, ws_pc>>
    /\ UNCHANGED <<wsFixed, ws_done, ws_cleanup, client_state, session, disconnect_calls,
                   pulled, provider_input, error>>

\* `await task` on a cancelled task raises CancelledError, which both loops catch
WsAwaitEnds ==
    /\ ws_awaiting # <<>>
    /\ tasks[ws_awaiting[1]] = "cancelled"
    /\ ws_awaiting' = <<>>
    /\ IF ws_pc = "cancel_pending"
       THEN ws_pending' = ws_pending \ {ws_awaiting[1]} /\ UNCHANGED ws_cleanup
       ELSE ws_cleanup' = ws_cleanup + 1 /\ UNCHANGED ws_pending
    /\ UNCHANGED <<wsFixed, tasks, ws_pc, ws_done, client_state, session, disconnect_calls,
                   pulled, provider_input, error>>

\* for task in done: if task.exception(): raise it; either way the finally block is next
WsCheckDone ==
    /\ ws_pc = "cancel_pending"
    /\ ws_awaiting = <<>>
    /\ ws_pending = {}
    /\ ws_pc' = "finally"
    /\ UNCHANGED <<wsFixed, tasks, ws_done, ws_pending, ws_awaiting, ws_cleanup, client_state,
                   session, disconnect_calls, pulled, provider_input, error>>

\* the session is cancelled while the endpoint awaits asyncio.wait or the success
\* message: CancelledError passes both except clauses
WsSessionCancelled ==
    /\ ws_pc \in {"connected", "wait"}
    /\ error' = "CancelledError"
    /\ ws_pc' = "finally"
    /\ UNCHANGED <<wsFixed, tasks, ws_done, ws_pending, ws_awaiting, ws_cleanup, client_state,
                   session, disconnect_calls, pulled, provider_input>>

\* a cleanup loop that cancels a task without awaiting it
WsFinallyStepNoAwait ==
    /\ ws_pc = "finally"
    /\ ws_awaiting = <<>>
    /\ ws_cleanup <= Len(CleanupOrder)
    /\ LET t == CleanupOrder[ws_cleanup]
       IN tasks' = IF TaskIs(t, "running") THEN [tasks EXCEPT ![t] = "cancelling"] ELSE tasks
    /\ ws_cleanup' = ws_cleanup + 1
    /\ UNCHANGED <<wsFixed, ws_pc, ws_done, ws_pending, ws_awaiting, client_state, session,
                   disconnect_calls, pulled, provider_input, error>>

\* finally: for each task: if task and not task.done(): task.cancel(); await task
WsFinallyStep ==
    /\ ws_pc = "finally"
    /\ ws_awaiting = <<>>
    /\ ws_cleanup <= Len(CleanupOrder)
    /\ LET t == CleanupOrder[ws_cleanup]
       IN IF TaskIs(t, "running") \/ TaskIs(t, "cancelling")
          THEN /\ tasks' = [tasks EXCEPT ![t] = "cancelling"]
               /\ ws_awaiting' = <<t>>
               /\ UNCHANGED ws_cleanup
          ELSE /\ ws_cleanup' = ws_cleanup + 1
               /\ UNCHANGED <<tasks, ws_awaiting>>
    /\ UNCHANGED <<wsFixed, ws_pc, ws_done, ws_pending, client_state, session,
                   disconnect_calls, pulled, provider_input, error>>

\* finally: if service: await service.disconnect(); then the WebSocket is closed.
\* OpenAIRealtimeTranscriptionService.disconnect closes the session if there is one
WsDisconnect ==
    /\ ws_pc = "finally"
    /\ ws_awaiting = <<>>
    /\ ws_cleanup > Len(CleanupOrder)
    /\ disconnect_calls' = IF session # "none" THEN disconnect_calls + 1 ELSE disconnect_calls
    /\ session' = IF session = "open" THEN "closed" ELSE session
    /\ client_state' = "DISCONNECTED"
    /\ ws_pc' = "closed"
    /\ UNCHANGED <<wsFixed, tasks, ws_done, ws_pending, ws_awaiting, ws_cleanup, pulled,
                   provider_input, error>>

InitWs ==
    /\ PipelineIdle("websocket")
    /\ input_audio_format \in WsFormats
    /\ input_sample_rate \in WsRates
    /\ rt_pc = "idle"
    /\ provider_input = <<>>
    /\ sink = 0
    /\ tasks = <<>>
    /\ ws_pc = "accepted"
    /\ ws_done = {}
    /\ ws_pending = {}
    /\ ws_awaiting = <<>>
    /\ ws_cleanup = 1
    /\ client_state = "CONNECTED"
    /\ session = "none"
    /\ disconnect_calls = 0
    /\ FallbackIdle /\ ValidationIdle /\ reqs = <<>> /\ CodecIdle
    /\ ManagersIdle

NextWs ==
    \/ WsInitRejected
    \/ WsConnectFails
    \/ WsConnect
    \/ WsSendSuccessFails
    \/ WsStartTasks
    \/ \E n \in WsChunkLens : WsClientAudio(n)
    \/ WsClientBadAudio
    \/ WsClientClose
    \/ WsClientDisconnect
    \/ WsSendTimeout
    \/ WsProviderTurn
    \/ WsProviderEnds
    \/ WsProviderFails
    \/ WsWaitReturns
    \/ \E t \in WsTaskNames : WsCancelPending(t)
    \/ WsAwaitEnds
    \/ WsCheckDone
    \/ WsSessionCancelled
    \/ WsFinallyStep
    \/ WsDisconnect
    \/ \E t \in WsTaskNames : TaskCancelDelivered(t)

SpecWs == InitWs /\ [][NextWs]_vars

---------------------------------------------------------------------------
(* Two requests served concurrently: each speak / stream_speak call builds its own
   Resampler and ChunkCollector; the event loop interleaves the calls' steps *)

Requests == {1, 2}

\* the requests tried: entry point, mime_type, the service's native rate,
\* request.sample_rate, request.chunk_size
PairConfigs ==
    { [kind |-> "stream", mime |-> "PCM", native |-> 24000, rate |-> 16000, ms |-> 1],
      [kind |-> "stream", mime |-> "ULAW", native |-> 16000, rate |-> 16000, ms |-> 1],
      [kind |-> "speak", mime |-> "ULAW", native |-> 16000, rate |-> 24000, ms |-> 20] }

\* lengths of the provider's buffers: odd and short, a frame and a bit, a frame and a half
PairChunkLens == {1, 34, 51}

RECURSIVE EncodeAll(_, _)
\* encode_from_pcm_stream over `frames`: the chunks yielded, and the exception that
\* ended the stream, if any
EncodeAll(frames, mime) ==
    IF frames = <<>> THEN [out |-> <<>>, err |-> "none"]
    ELSE LET e == encode(Head(frames), mime)
         IN IF e.err # "none" THEN [out |-> <<>>, err |-> e.err]
            ELSE LET rest == EncodeAll(Tail(frames), mime)
                 IN [out |-> <<e.data>> \o rest.out, err |-> rest.err]

RECURSIVE WholeFrames(_, _)
\* the frames collect_chunks yields from a buffer of `bytes`
WholeFrames(bytes, n) ==
    IF FrameReady(bytes, n) THEN <<FrameOf(bytes, n)>> \o WholeFrames(AfterFrame(bytes, n), n)
    ELSE <<>>

RECURSIVE AfterFrames(_, _)
\* what collect_chunks leaves in the buffer
AfterFrames(bytes, n) ==
    IF FrameReady(bytes, n) THEN AfterFrames(AfterFrame(bytes, n), n) ELSE bytes

\* both requests resample and chunk with the instances of request 1
PairInstanceShared(r) == 1

\* the request whose Resampler and ChunkCollector request r uses: its own
\* (Resampler(...) and ChunkCollector(...) are built inside each call)
PairInstance(r) == r

\* everything a pair of requests leaves alone
pairFixed == <<reqVars, callVars, provider_calls, pulled, first_chunk, rsVars, ckVars, demand,
               rs_pending, ck_pending, enc_pc, out, stream, error, raised_by, enc_in,
               rtVars, tasks, wsVars, fbVars, valVars, codecVars, mgrVars>>

\* a new request: nothing pulled, fresh instances, nothing delivered
NewRequest(cfg) ==
    [cfg |-> cfg, pulled |-> <<>>, buf |-> <<>>, tail |-> <<>>, ck |-> <<>>,
     out |-> <<>>, st |-> "run"]

\* request r's stream moves one buffer of its provider through its chain:
\* Resampler.process_chunk, collect_chunks, encode
PairYield(r, n) ==
    LET q == reqs[r]
        i == PairInstance(r)
        c == SourceBytes(r, TotalLen(q.pulled), n)
        rs == process_chunk(reqs[i].buf, reqs[i].tail, c, FALSE, q.cfg.native, q.cfg.rate)
        nb == bytes_per_chunk(q.cfg.rate, q.cfg.ms)
        joined == reqs[i].ck \o rs.out
        e == EncodeAll(WholeFrames(joined, nb), q.cfg.mime)
    IN /\ q.cfg.kind = "stream"
       /\ q.st = "run"
       /\ Len(q.pulled) < MaxChunks
       /\ reqs' = [x \in Requests |->
                    LET a == IF x = r
                             THEN [reqs[x] EXCEPT !.pulled = Append(@, c),
                                                  !.out = @ \o e.out,
                                                  !.st = IF e.err = "none" THEN "run" ELSE "error"]
                             ELSE reqs[x]
                    IN IF x = i
                       THEN [a EXCEPT !.buf = rs.buf, !.tail = rs.tail,
                                      !.ck = AfterFrames(joined, nb)]
                       ELSE a]
       /\ UNCHANGED pairFixed

\* request r's provider stream ends: the Resampler's flush, then the collector's
PairEnd(r) ==
    LET q == reqs[r]
        i == PairInstance(r)
        fl == IF reqs[i].buf # <<>>
              THEN process_chunk(reqs[i].buf, reqs[i].tail, <<>>, TRUE, q.cfg.native, q.cfg.rate)
              ELSE [out |-> <<>>, buf |-> <<>>, tail |-> reqs[i].tail]
        nb == bytes_per_chunk(q.cfg.rate, q.cfg.ms)
        joined == reqs[i].ck \o fl.out
        rest == ck_flush(AfterFrames(joined, nb))
        e == EncodeAll(WholeFrames(joined, nb) \o (IF rest # <<>> THEN <<rest>> ELSE <<>>),
                       q.cfg.mime)
    IN /\ q.cfg.kind = "stream"
       /\ q.st = "run"
       /\ q.pulled # <<>>
       /\ reqs' = [x \in Requests |->
                    LET a == IF x = r
                             THEN [reqs[x] EXCEPT !.out = @ \o e.out,
                                                  !.st = IF e.err = "none" THEN "done" ELSE "error"]
                             ELSE reqs[x]
                    IN IF x = i
                       THEN [a EXCEPT !.buf = fl.buf, !.tail = fl.tail, !.ck = <<>>]
                       ELSE a]
       /\ UNCHANGED pairFixed

\* request r's speak call: text2speech returns n bytes, process_chunk(flush=True), encode
PairSpeak(r, n) ==
    LET q == reqs[r]
        i == PairInstance(r)
        c == SourceBytes(r, 0, n)
        rs == process_chunk(reqs[i].buf, reqs[i].tail, c, TRUE, q.cfg.native, q.cfg.rate)
        e == encode(rs.out, q.cfg.mime)
    IN /\ q.cfg.kind = "speak"
       /\ q.st = "run"
       /\ reqs' = [x \in Requests |->
                    LET a == IF x = r
                             THEN [reqs[x] EXCEPT !.pulled = <<c>>,
                                                  !.out = IF e.err = "none" THEN <<e.data>> ELSE <<>>,
                                                  !.st = IF e.err = "none" THEN "done" ELSE "error"]
                             ELSE reqs[x]
                    IN IF x = i
                       THEN [a EXCEPT !.buf = rs.buf, !.tail = rs.tail]
                       ELSE a]
       /\ UNCHANGED pairFixed

InitPair ==
    /\ PipelineIdle("pair")
    /\ RealtimeIdle /\ tasks = <<>> /\ WsIdle /\ FallbackIdle /\ ValidationIdle /\ CodecIdle
    /\ ManagersIdle
    /\ \E c1 \in PairConfigs, c2 \in PairConfigs :
          reqs = [r \in Requests |-> NewRequest(IF r = 1 THEN c1 ELSE c2)]

NextPair ==
    \/ \E r \in Requests, n \in PairChunkLens : PairYield(r, n)
    \/ \E r \in Requests : PairEnd(r)
    \/ \E r \in Requests, n \in PairChunkLens : PairSpeak(r, n)

SpecPair == InitPair /\ [][NextPair]_vars

---------------------------------------------------------------------------
(* encode and decode called directly: a buffer encoded chunk by chunk and whole,
   and the whole encoding decoded again *)

\* most chunks the buffer is cut into
MaxCodecChunks == 2

\* the formats encode and decode have a branch for
CodecFormats == {"PCM", "ULAW", "ALAW"}

\* sample values of the buffers: both ends of the int16 range, zero and its
\* neighbour, one value inside a segment
CodecSamples == {-32768, -1, 0, 1000, 32767}

\* the chunks: one or two samples, and one fragment that is not a whole sample
CodecChunks ==
    {BytesOf(<<a>>) : a \in CodecSamples}
        \cup {BytesOf(<<a, b>>) : a \in CodecSamples, b \in CodecSamples}
        \cup {<<7>>}

codecFixed == <<harness, mime_type, sample_rate, chunk_size, default_sample_rate, seed,
                provider_calls, first_chunk, rsVars, ckVars, demand, rs_pending, ck_pending,
                enc_pc, out, stream, raised_by, response, enc_in, rtVars, tasks, wsVars,
                fbVars, valVars, reqs, mgrVars>>

\* encode(chunk, mime_type) on the next chunk of the buffer
CodecEncodeChunk(chunk) ==
    /\ pc = "idle"
    /\ Len(pulled) < MaxCodecChunks
    /\ pulled' = Append(pulled, chunk)
    /\ encoded' = Append(encoded, encode(chunk, mime_type))
    /\ UNCHANGED <<codecFixed, pc, result, error, decoded>>

\* encode(b"".join(chunks), mime_type): the buffer encoded whole
CodecEncodeWhole ==
    /\ pc = "idle"
    /\ pulled # <<>>
    /\ LET r == encode(Concat(pulled), mime_type)
       IN /\ result' = r.data
          /\ error' = r.err
          /\ pc' = IF r.err = "none" THEN "encoded" ELSE "raised"
    /\ UNCHANGED <<codecFixed, pulled, encoded, decoded>>

\* decode(encoded, mime_type) on the whole encoding
CodecDecode ==
    /\ pc = "encoded"
    /\ LET r == decode(result, mime_type)
       IN /\ decoded' = <<r.data>>
          /\ error' = r.err
          /\ pc' = IF r.err = "none" THEN "decoded" ELSE "raised"
    /\ UNCHANGED <<codecFixed, pulled, encoded, result>>

InitCodec ==
    /\ harness = "codec"
    /\ mime_type \in CodecFormats
    /\ sample_rate = 24000
    /\ chunk_size = 20
    /\ default_sample_rate = 24000
    /\ seed = 0
    /\ Fresh
    /\ demand = FALSE
    /\ enc_pc = "fresh"
    /\ stream = "none"
    /\ OtherIdle

NextCodec ==
    \/ \E chunk \in CodecChunks : CodecEncodeChunk(chunk)
    \/ CodecEncodeWhole
    \/ CodecDecode

SpecCodec == InitCodec /\ [][NextCodec]_vars

---------------------------------------------------------------------------
(* SpeakRequest: construction with its field validators, then the handler that
   passes an accepted request to the provider *)

\* characters str.strip() removes, of those the texts are made of
Whitespace == {" ", "\n"}

RECURSIVE lstrip(_)
lstrip(v) == IF v # <<>> /\ Head(v) \in Whitespace THEN lstrip(Tail(v)) ELSE v

RECURSIVE rstrip(_)
rstrip(v) ==
    IF v # <<>> /\ v[Len(v)] \in Whitespace THEN rstrip(SubSeq(v, 1, Len(v) - 1)) ELSE v

\* str.strip(), a text being the sequence of its characters
strip(v) == rstrip(lstrip(v))

\* validate_text: the error raised, or "none"
validate_text(v) == IF strip(v) = <<>> THEN "ValueError" ELSE "none"

\* validate_sample_rate with the lower bound exclusive
validate_sample_rate_strict(v) == IF v <= 8000 \/ v > 48000 THEN "ValueError" ELSE "none"

\* validate_sample_rate
validate_sample_rate(v) == IF v < 8000 \/ v > 48000 THEN "ValueError" ELSE "none"

\* validate_chunk_size
validate_chunk_size(v) ==
    IF v <= 0 THEN "ValueError"
    ELSE IF v > 1000 THEN "ValueError"
    ELSE "none"

\* chunk_size: int = Field(default=20): the value of the field when the input has none;
\* pydantic does not run the field's validator on the default
ChunkSizeField(c) == IF c.chunk_size = <<>> THEN 20 ELSE c.chunk_size[1]

\* SpeakRequest(**c): every validator of a field present in the input runs
Construct(c) ==
    IF /\ validate_text(c.text) = "none"
       /\ validate_sample_rate(c.sample_rate) = "none"
       /\ c.chunk_size # <<>> => validate_chunk_size(c.chunk_size[1]) = "none"
    THEN "accepted" ELSE "rejected"

\* the inputs: values on both sides of each bound
CandidateTexts == {<<>>, <<" ">>, <<" ", "\n">>, <<"a">>, <<" ", "a", " ">>}
CandidateRates == {-1, 0, 7999, 8000, 16000, 48000, 48001}
\* <<>> is an input without the field, <<v>> one that gives it the value v
CandidateChunkSizes == {<<>>} \cup {<<v>> : v \in {-1, 0, 1, 20, 1000, 1001}}
Candidates ==
    [text : CandidateTexts, sample_rate : CandidateRates, chunk_size : CandidateChunkSizes]

requestFixed == <<harness, mime_type, default_sample_rate, seed, pulled, first_chunk, rsVars,
                  ckVars, demand, rs_pending, ck_pending, enc_pc, out, stream, raised_by,
                  result, response, enc_in, rtVars, tasks, wsVars, fbVars, reqs, codecVars,
                  mgrVars>>

\* the request body is parsed into a SpeakRequest: the model is built, or the
\* validation error is raised and no handler runs
SpeakRequestConstruct(c) ==
    /\ pc = "idle"
    /\ candidate' = c
    /\ validation' = Construct(c)
    /\ IF Construct(c) = "accepted"
       THEN /\ sample_rate' = c.sample_rate
            /\ chunk_size' = ChunkSizeField(c)
            /\ pc' = "constructed"
            /\ error' = error
       ELSE /\ pc' = "raised"
            /\ error' = "ValidationError"
            /\ UNCHANGED <<sample_rate, chunk_size>>
    /\ UNCHANGED <<requestFixed, provider_calls>>

\* audio_speak / audio_speak_stream run on the constructed request and reach the
\* provider call
SpeakRequestDispatch ==
    /\ pc = "constructed"
    /\ provider_calls' = provider_calls + 1
    /\ pc' = "called"
    /\ UNCHANGED <<requestFixed, candidate, validation, sample_rate, chunk_size, error>>

InitRequest ==
    /\ PipelineIdle("request")
    /\ OtherIdle

NextRequest ==
    \/ \E c \in Candidates : SpeakRequestConstruct(c)
    \/ SpeakRequestDispatch

SpecRequest == InitRequest /\ [][NextRequest]_vars

---------------------------------------------------------------------------
(* FallbackManager: catch dispatches on the strategy; execute_sequential tries the
   requests in order; execute_parallel starts a task per request and waits for
   the first completion; audio_speak_stream unpacks what safe_speak returns *)

\* most requests of a fallback list
MaxFallbackRequests == 3

Strategies == {"sequential", "parallel"}

\* how execute() ends for a request: the executor returns, the executor raises,
\* or asyncio.wait_for raises TimeoutError
Outcomes == {"ok", "error", "timeout"}

\* FallbackRequest.requests has no minimum length
OutcomeLists ==
    UNION {[1 .. n -> Outcomes] : n \in 0 .. MaxFallbackRequests}

fallbackFixed == <<reqVars, provider_calls, pulled, first_chunk, rsVars, ckVars, demand,
                   rs_pending, ck_pending, enc_pc, out, stream, raised_by, result, response,
                   enc_in, rtVars, wsVars, valVars, reqs, codecVars, mgrVars, fb_strategy,
                   fb_outcomes>>

\* tasks of execute_parallel's `pending` set: not yet returned by asyncio.wait
FbPending == {i \in DOMAIN tasks : tasks[i] \in {"running", "ok", "failed"}}

\* tasks asyncio.wait returns in `done` when it returns now
FbDone == {i \in DOMAIN tasks : tasks[i] \in {"ok", "failed"}}

\* catch: the strategy's method is entered. An empty list ends either method at
\* once: the for loop and the while loop have nothing to run, and the method
\* falls off its end after the log line
FbCatch ==
    /\ fb_pc = "idle"
    /\ IF fb_outcomes = <<>>
       THEN /\ fb_pc' = "returned"
            /\ fb_result' = <<"None">>
            /\ tasks' = tasks
       ELSE IF fb_strategy = "sequential"
       THEN /\ fb_pc' = "for"
            /\ fb_result' = fb_result
            /\ tasks' = tasks
       ELSE /\ fb_pc' = "wait"
            /\ fb_result' = fb_result
            /\ tasks' = [i \in 1 .. Len(fb_outcomes) |-> "running"]
    /\ UNCHANGED <<fallbackFixed, fb_index, pc, error>>

\* execute_sequential: execute() returns for the current request; its result is
\* returned
FbSeqSucceeds ==
    /\ fb_pc = "for"
    /\ fb_outcomes[fb_index] = "ok"
    /\ fb_result' = <<"result", fb_index>>
    /\ fb_pc' = "returned"
    /\ UNCHANGED <<fallbackFixed, fb_index, tasks, pc, error>>

\* execute_sequential: execute() raises (the executor's exception or wait_for's
\* TimeoutError); except Exception logs and continues. After the last request
\* the loop ends, "All requests failed" is logged and the method falls off its
\* end, returning None
FbSeqFails ==
    /\ fb_pc = "for"
    /\ fb_outcomes[fb_index] \in {"error", "timeout"}
    /\ IF fb_index < Len(fb_outcomes)
       THEN /\ fb_index' = fb_index + 1
            /\ UNCHANGED <<fb_pc, fb_result>>
       ELSE /\ fb_index' = fb_index
            /\ fb_pc' = "returned"
            /\ fb_result' = <<"None">>
    /\ UNCHANGED <<fallbackFixed, tasks, pc, error>>

\* execute_parallel: the task of request i completes, with a result or an exception
FbTaskCompletes(i) ==
    /\ fb_pc = "wait"
    /\ TaskIs(i, "running")
    /\ tasks' = [tasks EXCEPT ![i] = IF fb_outcomes[i] = "ok" THEN "ok" ELSE "failed"]
    /\ UNCHANGED <<fallbackFixed, fb_pc, fb_index, fb_result, pc, error>>

\* the return of the first result without the loop that cancels the pending tasks
FbParSucceedsNoCancel(i) ==
    /\ fb_pc = "wait"
    /\ TaskIs(i, "ok")
    /\ fb_result' = <<"result", i>>
    /\ fb_pc' = "returned"
    /\ tasks' = [j \in DOMAIN tasks |->
                    IF tasks[j] \in {"ok", "failed"} THEN "checked" ELSE tasks[j]]
    /\ UNCHANGED <<fallbackFixed, fb_index, pc, error>>

\* execute_parallel: asyncio.wait returns and the loop over `done` meets a task
\* with a result: the pending tasks are cancelled and the result is returned.
\* `done` is a set: any of its tasks that succeeded may be the one met first
FbParSucceeds(i) ==
    /\ fb_pc = "wait"
    /\ TaskIs(i, "ok")
    /\ fb_result' = <<"result", i>>
    /\ fb_pc' = "returned"
    /\ tasks' = [j \in DOMAIN tasks |->
                    IF tasks[j] = "running" THEN "cancelling"
                    ELSE IF tasks[j] \in {"ok", "failed"} THEN "checked"
                    ELSE tasks[j]]
    /\ UNCHANGED <<fallbackFixed, fb_index, pc, error>>

\* execute_parallel: asyncio.wait returns and every task of `done` failed: each is
\* logged. With tasks still pending the loop waits again; with none,
\* "All parallel executors failed" is logged and the method falls off its end,
\* returning None
FbParAllFailed ==
    /\ fb_pc = "wait"
    /\ FbDone # {}
    /\ \A i \in FbDone : tasks[i] = "failed"
    /\ tasks' = [j \in DOMAIN tasks |-> IF tasks[j] = "failed" THEN "checked" ELSE tasks[j]]
    /\ IF FbPending \ FbDone # {}
       THEN UNCHANGED <<fb_pc, fb_result>>
       ELSE /\ fb_pc' = "returned"
            /\ fb_result' = <<"None">>
    /\ UNCHANGED <<fallbackFixed, fb_index, pc, error>>

\* the event loop delivers the cancellation to a task execute_parallel cancelled
FbTaskCancelled(i) ==
    /\ TaskIs(i, "cancelling")
    /\ tasks' = [tasks EXCEPT ![i] = "cancelled"]
    /\ UNCHANGED <<fallbackFixed, fb_pc, fb_index, fb_result, pc, error>>

\* audio_speak_stream: generator, mime_type, sample_rate = await safe_speak(...);
\* unpacking None raises TypeError, which the handler turns into a 500 response
FbHandlerUnpacks ==
    /\ harness = "fallback"
    /\ fb_pc = "returned"
    /\ pc = "idle"
    /\ IF fb_result = <<"None">>
       THEN pc' = "raised" /\ error' = "TypeError"
       ELSE pc' = "returned" /\ error' = error
    /\ UNCHANGED <<fallbackFixed, fb_pc, fb_index, fb_result, tasks>>

InitFallback ==
    /\ PipelineIdle("fallback")
    /\ RealtimeIdle /\ WsIdle /\ ValidationIdle /\ reqs = <<>> /\ CodecIdle
    /\ ManagersIdle
    /\ tasks = <<>>
    /\ fb_strategy \in Strategies
    /\ fb_outcomes \in OutcomeLists
    /\ fb_pc = "idle"
    /\ fb_index = 1
    /\ fb_result = <<>>

NextFallback ==
    \/ FbCatch
    \/ FbSeqSucceeds
    \/ FbSeqFails
    \/ \E i \in 1 .. MaxFallbackRequests : FbTaskCompletes(i)
    \/ \E i \in 1 .. MaxFallbackRequests : FbParSucceeds(i)
    \/ FbParAllFailed
    \/ \E i \in 1 .. MaxFallbackRequests : FbTaskCancelled(i)
    \/ FbHandlerUnpacks

SpecFallback == InitFallback /\ [][NextFallback]_vars

---------------------------------------------------------------------------
(* ConfigManager: add_config, delete_config, get_provider *)

Uids == {"a", "b"}

\* ProviderKind
ProviderKinds == {"openai", "google", "anthropic", "groq", "elevenlabs"}

Models == {"m1", "m2"}

\* Settings.blacklist_models: None (here the empty set) or a list of models
Blacklists == {{}, {"m1"}}

\* what the call to redis_manager does: there is none, it returns, it raises
RedisOutcomes == {"absent", "ok", "fails"}

\* create_provider_client(settings): the class of the client returned. The first
\* branch tests settings.provider == ProviderKind.OPENAI or settings.provider ==
\* ProviderKind.OPENAI_CHAT; ProviderKind has no member OPENAI_CHAT, so for every
\* provider but OPENAI evaluating the second operand raises AttributeError before
\* any other branch is reached
create_provider_client(settings) ==
    IF settings.provider = "openai" THEN Ok("AsyncOpenAI") ELSE Raise("AttributeError")

\* d[k] = v
DictSet(d, k, v) == [u \in DOMAIN d \cup {k} |-> IF u = k THEN v ELSE d[u]]

\* d.pop(k), for k in d
DictPop(d, k) == [u \in DOMAIN d \ {k} |-> d[u]]

configFixed == <<reqVars, callVars, provider_calls, pulled, first_chunk, rsVars, ckVars, demand,
                 rs_pending, ck_pending, enc_pc, out, stream, error, raised_by, enc_in,
                 rtVars, tasks, wsVars, fbVars, valVars, reqs, codecVars, wmVars>>

\* add_config(config): the config is stored, then the client is created and
\* stored, then the settings are saved to Redis when there is a redis_manager
add_config(config, redis) ==
    LET c == create_provider_client(config)
    IN /\ configs' = DictSet(configs, config.uid, config)
       /\ providers' = IF c.err = "none" THEN DictSet(providers, config.uid, c.data)
                       ELSE providers
       /\ cfg_call' = [op |-> "add_config", uid |-> config.uid, model |-> "none",
                       registered |-> config.uid \in DOMAIN configs,
                       raised |-> IF c.err # "none" THEN c.err
                                  ELSE IF redis = "fails" THEN "RedisError" ELSE "none",
                       returned |-> "none",
                       changed |-> TRUE]
       /\ UNCHANGED configFixed

\* delete_config(uid)
delete_config(uid, redis) ==
    /\ IF uid \notin DOMAIN configs
       THEN /\ UNCHANGED <<configs, providers>>
            /\ cfg_call' = [op |-> "delete_config", uid |-> uid, model |-> "none",
                            registered |-> FALSE,
                            raised |-> "ValueError", returned |-> "none",
                            changed |-> FALSE]
       ELSE /\ configs' = DictPop(configs, uid)
            /\ providers' = IF uid \in DOMAIN providers THEN DictPop(providers, uid)
                            ELSE providers
            /\ cfg_call' = [op |-> "delete_config", uid |-> uid, model |-> "none",
                            registered |-> TRUE,
                            raised |-> IF uid \notin DOMAIN providers THEN "KeyError"
                                       ELSE IF redis = "fails" THEN "RedisError"
                                       ELSE "none",
                            returned |-> "none",
                            changed |-> TRUE]
    /\ UNCHANGED configFixed

\* get_provider(uid, model), through get_config_client and get_config_provider
get_provider(uid, model) ==
    /\ cfg_call' =
          [op |-> "get_provider", uid |-> uid, model |-> model,
           registered |-> uid \in DOMAIN configs,
           raised |-> IF uid \notin DOMAIN configs THEN "ValueError"
                      ELSE IF model \in configs[uid].blacklist_models THEN "ValueError"
                      ELSE IF uid \notin DOMAIN providers THEN "KeyError"
                      ELSE "none",
           returned |-> IF /\ uid \in DOMAIN configs
                           /\ model \notin configs[uid].blacklist_models
                           /\ uid \in DOMAIN providers
                        THEN providers[uid] ELSE "none",
           changed |-> FALSE]
    /\ UNCHANGED <<configs, providers, configFixed>>

InitConfig ==
    /\ PipelineIdle("config")
    /\ RealtimeIdle /\ tasks = <<>> /\ WsIdle /\ FallbackIdle /\ ValidationIdle
    /\ reqs = <<>> /\ CodecIdle
    /\ configs = <<>>
    /\ providers = <<>>
    /\ cfg_call = NoCall
    /\ WsManagerIdle

NextConfig ==
    \/ \E uid \in Uids, provider \in ProviderKinds, bl \in Blacklists, redis \in RedisOutcomes :
          add_config([uid |-> uid, provider |-> provider, blacklist_models |-> bl], redis)
    \/ \E uid \in Uids, redis \in RedisOutcomes : delete_config(uid, redis)
    \/ \E uid \in Uids, model \in Models : get_provider(uid, model)

SpecConfig == InitConfig /\ [][NextConfig]_vars

---------------------------------------------------------------------------
(* WsManager: one request of the generic WebSocket endpoint *)

MaxWmChunks == 2

\* WsAction
WsActions == {"agent_run", "agent_run_stream", "audio_speak", "audio_speak_stream",
              "audio_transcribe", "transcription_session"}

\* the actions whose handler is an async generator function
StreamActions == {"agent_run_stream", "audio_speak_stream"}

\* the actions handle_request's match statement has a case for
MatchedActions == WsActions \ {"transcription_session"}

\* the fields of WsRequest; pydantic ignores any other key of the message
WsRequestFields == {"action", "payload"}

\* request.<field>: a pydantic model raises AttributeError for a field it has not
GetAttr(fields, field) == IF field \in fields THEN Ok(field) ELSE Raise("AttributeError")

\* the requests a client can send and what the handler does with them: a
\* non-streaming handler returns or raises, a streaming one yields `chunks` items
\* and then ends or raises; send_fails = k > 0 when the k-th send_json raises
WmRequests ==
    { r \in [action : WsActions, handler : {"returns", "raises"}, chunks : 0..MaxWmChunks,
             send_fails : 0..(MaxWmChunks + 1), handled : {FALSE}, raised : {"none"}] :
        /\ r.action \notin StreamActions => r.chunks = 0 /\ r.send_fails <= 1
        /\ r.action \notin MatchedActions => r.handler = "returns" }

\* handle_stream_response(data, action, session_id): the statuses it yields
handle_stream_response(req) ==
    [i \in 1..req.chunks |-> "streaming"]
        \o <<IF req.handler = "raises" THEN "error" ELSE "success">>

\* the try block of handle_request: the match statement, then the response built
\* from what the handler returned
handle_request_try(req, fields) ==
    IF req.action \notin MatchedActions THEN Raise("UnboundLocalError")
    ELSE IF req.action \in StreamActions
    THEN IF GetAttr(fields, "session_id").err # "none"
         THEN GetAttr(fields, "session_id")
         ELSE Ok([stream |-> TRUE, statuses |-> handle_stream_response(req)])
    ELSE IF req.handler = "raises" THEN Raise("Exception")
    ELSE IF GetAttr(fields, "session_id").err # "none"
         THEN GetAttr(fields, "session_id")
         ELSE Ok([stream |-> FALSE, statuses |-> <<"success">>])

\* handle_request(request): the try block, and on any exception the handler that
\* builds the ERROR response, whose own exception leaves the method
handle_request(req, fields) ==
    IF handle_request_try(req, fields).err = "none" THEN handle_request_try(req, fields)
    ELSE IF GetAttr(fields, "session_id").err # "none" THEN GetAttr(fields, "session_id")
    ELSE Ok([stream |-> FALSE, statuses |-> <<"error">>])

\* handle_request_with_response(websocket, request): what is sent, and what the
\* method raises. A send that fails inside the stream loop breaks out of the loop;
\* the single send of a non-streaming response is not guarded
handle_request_with_response(req, fields) ==
    LET r == handle_request(req, fields)
    IN IF r.err # "none" THEN [sent |-> <<>>, raised |-> r.err]
       ELSE IF r.data.stream
       THEN [sent |-> IF req.send_fails \in 1..Len(r.data.statuses)
                      THEN SubSeq(r.data.statuses, 1, req.send_fails - 1)
                      ELSE r.data.statuses,
             raised |-> "none"]
       ELSE IF req.send_fails = 1 THEN [sent |-> <<>>, raised |-> "SendError"]
       ELSE [sent |-> r.data.statuses, raised |-> "none"]

wmFixed == <<reqVars, callVars, provider_calls, pulled, first_chunk, rsVars, ckVars, demand,
             rs_pending, ck_pending, enc_pc, out, stream, error, raised_by, enc_in,
             rtVars, tasks, wsVars, fbVars, valVars, reqs, codecVars,
             configs, providers, cfg_call>>

\* websocket_endpoint: receive_json and WsRequest.model_validate give a request
WmReceive(req) ==
    /\ wm_pc = "receiving"
    /\ request' = req
    /\ responses' = <<>>
    /\ wm_pc' = "handling"
    /\ UNCHANGED wmFixed

\* websocket_endpoint: receive_json raises WebSocketDisconnect, which ends the loop
WmDisconnect ==
    /\ wm_pc = "receiving"
    /\ wm_pc' = "closed"
    /\ UNCHANGED <<request, responses, wmFixed>>

\* websocket_endpoint: await ws_manager.handle_request_with_response(websocket, request)
WmHandle ==
    /\ wm_pc = "handling"
    /\ LET h == handle_request_with_response(request, WsRequestFields)
       IN /\ responses' = h.sent
          /\ request' = [request EXCEPT !.handled = TRUE, !.raised = h.raised]
          /\ wm_pc' = IF h.raised = "none" THEN "receiving" ELSE "raised"
    /\ UNCHANGED wmFixed

\* websocket_endpoint: an exception of the handler leaves the loop and the
\* endpoint; only WebSocketDisconnect is caught
WmEndpointLeaves ==
    /\ wm_pc = "raised"
    /\ wm_pc' = "closed"
    /\ UNCHANGED <<request, responses, wmFixed>>

InitWsManager ==
    /\ PipelineIdle("wsmanager")
    /\ RealtimeIdle /\ tasks = <<>> /\ WsIdle /\ FallbackIdle /\ ValidationIdle
    /\ reqs = <<>> /\ CodecIdle
    /\ ConfigIdle
    /\ request = NoRequest
    /\ wm_pc = "receiving"
    /\ responses = <<>>

NextWsManager ==
    \/ \E req \in WmRequests : WmReceive(req)
    \/ WmDisconnect
    \/ WmHandle
    \/ WmEndpointLeaves

SpecWsManager == InitWsManager /\ [][NextWsManager]_vars

---------------------------------------------------------------------------
(* Resampler.process_stream with the worker thread of resample_pcm16: two
   requests, each with its own Resampler, on one event loop *)

\* most buffers a request's source yields
MaxWorkerChunks == 2

\* lengths of the source's buffers: odd and even
WorkerChunkLens == {1, 4}

\* input and output rate of a request's Resampler: down, up, equal
WorkerRates == { [native |-> 24000, rate |-> 16000],
                 [native |-> 8000, rate |-> 16000],
                 [native |-> 16000, rate |-> 16000] }

\* a request whose Resampler was just built and whose process_stream has not
\* pulled yet. st is the position of the process_stream coroutine: "run" at the
\* async for, "await" inside process_chunk at await resample_pcm16, "done";
\* concat is process_chunk's local concat_in; job and ret are the buffers handed
\* to and returned by the worker thread; wk is the state of the thread's call
NewWorkerRequest(cfg) ==
    [cfg |-> cfg, pulled |-> <<>>, buf |-> <<>>, tail |-> <<>>, out |-> <<>>,
     st |-> "run", flush |-> FALSE, concat |-> <<>>, job |-> <<>>, ret |-> <<>>,
     wk |-> "none", started |-> 0, returned |-> 0]

\* a process_stream that starts its next call while one is awaiting the worker
CanStartAnytime(q) == q.st \in {"run", "await"}

\* process_stream calls process_chunk from its one coroutine, at the async for or
\* after it; each call is awaited before the loop goes on
CanStart(q) == q.st = "run"

\* process_chunk(pcm16, flush) up to its first suspension or its return: the
\* parity step, the early returns, and the submission of the job
ProcessChunkBegin(q, pcm16, flush) ==
    LET joined == q.buf \o pcm16
        pcm == EvenPart(joined, flush)
        carry == OddCarry(joined, flush)
        concat_in == q.tail \o SamplesOf(pcm)
    IN IF pcm = <<>> \/ q.cfg.native = q.cfg.rate
       THEN [q EXCEPT !.buf = carry, !.out = @ \o pcm,
                      !.st = IF flush THEN "done" ELSE "run",
                      !.started = @ + 1, !.returned = @ + 1]
       ELSE [q EXCEPT !.buf = carry, !.flush = flush, !.concat = concat_in,
                      !.job = BytesOf([k \in 1 .. Len(concat_in) |-> ToInt16(concat_in[k])]),
                      !.ret = <<>>, !.wk = "queued", !.st = "await",
                      !.started = @ + 1]

\* process_chunk after await resample_pcm16 returned: the tail's share is
\* dropped, the tail is updated, the bytes are returned and yielded
ProcessChunkResume(q) ==
    LET out_i16 == DropTail(SamplesOf(q.ret), Len(q.tail),
                            UpOf(q.cfg.native, q.cfg.rate), DownOf(q.cfg.native, q.cfg.rate))
    IN [q EXCEPT !.tail = NewTail(q.concat, TailLen(q.cfg.native, q.cfg.rate)),
                 !.out = @ \o BytesOf(out_i16),
                 !.st = IF q.flush THEN "done" ELSE "run",
                 !.concat = <<>>, !.job = <<>>, !.ret = <<>>, !.wk = "none",
                 !.returned = @ + 1]

workerFixed == <<reqVars, callVars, provider_calls, pulled, first_chunk, rsVars, ckVars, demand,
                 rs_pending, ck_pending, enc_pc, out, stream, error, raised_by, enc_in,
                 rtVars, tasks, wsVars, fbVars, valVars, codecVars, mgrVars>>

\* request r's process_stream receives a buffer of n bytes and calls process_chunk
WkPull(r, n) ==
    LET q == reqs[r]
        c == SourceBytes(r, Len(Concat(q.pulled)), n)
    IN /\ CanStart(q)
       /\ q.st # "done"
       /\ Len(q.pulled) < MaxWorkerChunks
       /\ reqs' = [reqs EXCEPT ![r] =
                      ProcessChunkBegin([q EXCEPT !.pulled = Append(@, c)], c, FALSE)]
       /\ UNCHANGED workerFixed

\* request r's source ends: the flush call when a byte is held back
WkSourceEnds(r) ==
    LET q == reqs[r]
    IN /\ CanStart(q)
       /\ q.st # "done"
       /\ reqs' = [reqs EXCEPT ![r] =
                      IF q.buf # <<>> THEN ProcessChunkBegin(q, <<>>, TRUE)
                      ELSE [q EXCEPT !.st = "done"]]
       /\ UNCHANGED workerFixed

\* the worker thread runs _resample_pcm16_sync on the buffer it was given
WkThreadRuns(r) ==
    LET q == reqs[r]
    IN /\ q.wk = "queued"
       /\ reqs' = [reqs EXCEPT ![r] =
                      [q EXCEPT !.ret = resample_pcm16(q.job, q.cfg.native, q.cfg.rate),
                                !.wk = "finished"]]
       /\ UNCHANGED workerFixed

\* the event loop resumes request r's process_chunk with the thread's result
WkResume(r) ==
    LET q == reqs[r]
    IN /\ q.st = "await"
       /\ q.wk = "finished"
       /\ reqs' = [reqs EXCEPT ![r] = ProcessChunkResume(q)]
       /\ UNCHANGED workerFixed

InitWorker ==
    /\ PipelineIdle("worker")
    /\ RealtimeIdle /\ tasks = <<>> /\ WsIdle /\ FallbackIdle /\ ValidationIdle /\ CodecIdle
    /\ ManagersIdle
    /\ \E c1 \in WorkerRates, c2 \in WorkerRates :
          reqs = [r \in Requests |-> NewWorkerRequest(IF r = 1 THEN c1 ELSE c2)]

NextWorker ==
    \/ \E r \in Requests, n \in WorkerChunkLens : WkPull(r, n)
    \/ \E r \in Requests : WkSourceEnds(r)
    \/ \E r \in Requests : WkThreadRuns(r)
    \/ \E r \in Requests : WkResume(r)

SpecWorker == InitWorker /\ [][NextWorker]_vars

---------------------------------------------------------------------------
(* Claims *)

\* the request asks for a format its delivery mode cannot produce
Unsupported ==
    \/ harness = "stream" /\ mime_type \in {"WAV", "MP3"}
    \/ harness = "speak" /\ mime_type = "MP3"

\* C1: a request whose target format cannot be produced for its delivery mode is
\* rejected before any provider call, by the speak / stream_speak call itself: no
\* provider call is ever made for it, no stream is returned, and no error is raised
\* while the consumer iterates.
C1_RejectedBeforeProviderCall ==
    Unsupported => provider_calls = 0 /\ pc # "returned" /\ raised_by # "iteration"

\* Python's round(a / b) for a >= 0, b > 0: to the nearest integer, ties to even
RoundHalfEven(a, b) ==
    LET q == a \div b
        r == a % b
    IN IF 2 * r < b THEN q
       ELSE IF 2 * r > b THEN q + 1
       ELSE IF q % 2 = 0 THEN q ELSE q + 1

\* C2: every non-final frame emitted by ChunkCollector has length exactly
\* round(chunk_ms / 1000 * rate) * 2 bytes, a whole number of 16-bit samples.
C2_NonFinalFrameLength ==
    \A i \in 1 .. Len(out) :
        ~out[i].final =>
            Len(out[i].data) = RoundHalfEven(chunk_size * sample_rate, 1000) * 2

\* C3: in stream_speak with a target of PCM, mu-law or A-law, every buffer handed
\* from the resampler to the chunker and from the chunker to the encoder has even
\* length, and no stage fails because of a buffer's length.
C3_EvenHandoffs ==
    (harness = "stream" /\ mime_type \in {"PCM", "ULAW", "ALAW"}) =>
        /\ rs_pending # <<>> => Len(rs_pending[1]) % 2 = 0
        /\ ck_pending # <<>> => Len(ck_pending[1].data) % 2 = 0
        /\ error # "audioop.error"

\* C4: the frames emitted by ChunkCollector.process_stream, concatenated, are the
\* input buffers, concatenated: at every moment the bytes received are the bytes
\* emitted followed by the bytes still held, so at the end of the stream nothing is
\* lost, duplicated, padded or reordered.
C4_ChunkerPreservesBytes ==
    /\ Concat(OutData)
         \o (IF ck_pending # <<>> THEN ck_pending[1].data ELSE <<>>)
         \o ck_audio_buffer
         \o (IF rs_pending # <<>> THEN rs_pending[1] ELSE <<>>)
       = Concat(pulled)
    /\ stream = "ended" => Concat(OutData) = Concat(pulled)

C4_Witness ==
    /\ stream = "ended"
    /\ Len(pulled) >= 2
    /\ Len(out) >= 3
    /\ out[Len(out)].final
    /\ Len(out[Len(out)].data) % 2 = 1

\* C5 as stated: with equal rates the Resampler's whole output, after the flush, is
\* the input exactly, also when the input has odd length.
C5_IdentityExactly ==
    (default_sample_rate = sample_rate /\ stream = "ended") =>
        Concat(OutData) = Concat(pulled)

\* C5 amended: with equal rates the Resampler's whole output, after the flush, is
\* the input when the input has even length, and the input followed by one zero
\* byte when it has odd length.
C5_IdentityUpToPadding ==
    (default_sample_rate = sample_rate /\ stream = "ended") =>
        Concat(OutData) = IF TotalLen(pulled) % 2 = 0 THEN Concat(pulled)
                          ELSE Concat(pulled) \o <<0>>

C5_Witness ==
    /\ default_sample_rate = sample_rate
    /\ stream = "ended"
    /\ Len(pulled) >= 2
    /\ Len(pulled[1]) % 2 = 1
    /\ TotalLen(pulled) % 2 = 1
    /\ TotalLen(pulled) > 2

\* C6: buffered speak with the WAV target succeeds, and the buffer it returns is the
\* single-channel, 16-bit header for the target rate followed by the resampled samples.
C6_BufferedWav ==
    (harness = "speak" /\ mime_type = "WAV" /\ pc \in {"returned", "raised"}
        /\ error # "provider") =>
        /\ pc = "returned"
        /\ result = pcm2wav(process_chunk(<<>>, <<>>, pulled[1], TRUE,
                                          default_sample_rate, sample_rate).out,
                            sample_rate)

\* C7: stream_speak pulls the first chunk before it returns, and when the provider
\* fails on that first chunk the call itself raises: no stream and no response are
\* handed to the caller, and nothing is delivered.
C7_FirstChunkFailureRaisesFromCall ==
    harness = "stream" =>
        /\ pc = "returned" => provider_calls >= 1
        /\ (error = "provider" /\ pulled = <<>>) =>
              /\ pc = "raised" /\ raised_by = "call"
              /\ stream = "none" /\ response = "none" /\ out = <<>>

C7_Witness ==
    harness = "stream" /\ error = "provider" /\ pulled = <<>> /\ pc = "raised"

\* C8: when the provider stream ends without a chunk, stream_speak returns (it does
\* not raise) the requested content type and sample rate and a stream that yields
\* one zero-length chunk and then ends.
C8_EmptyProviderYieldsOneEmptyChunk ==
    (harness = "stream" /\ pc # "idle" /\ pulled = <<>> /\ error = "none") =>
        /\ pc = "returned"
        /\ response = [content_type |-> MimeValue(mime_type), sample_rate |-> sample_rate]
        /\ stream \in {"empty", "empty_yielded", "ended"}
        /\ stream = "empty" => out = <<>>
        /\ stream \in {"empty_yielded", "ended"} => OutData = << <<>> >>

C8_Witness ==
    /\ harness = "stream" /\ pulled = <<>> /\ error = "none"
    /\ stream = "ended" /\ Len(out) = 1

\* C9: every non-final chunk of stream_speak's stream is the encoding of one frame
\* sized at the target rate: N bytes for PCM and N / 2 bytes for mu-law and A-law,
\* N being the frame size for (target rate, chunk_size); from 24000 Hz to 16000 Hz
\* mu-law with 20 ms windows it is 320 bytes.
C9_OutputChunkLength ==
    harness = "stream" =>
        \A i \in 1 .. Len(out) :
            ~out[i].final =>
                /\ mime_type = "PCM" =>
                      Len(out[i].data) = bytes_per_chunk(sample_rate, chunk_size)
                /\ mime_type \in {"ULAW", "ALAW"} =>
                      2 * Len(out[i].data) = bytes_per_chunk(sample_rate, chunk_size)
                /\ (default_sample_rate = 24000 /\ sample_rate = 16000
                        /\ chunk_size = 20 /\ mime_type = "ULAW") =>
                      Len(out[i].data) = 320

C9_Witness ==
    /\ harness = "stream"
    /\ default_sample_rate = 24000 /\ sample_rate = 16000
    /\ chunk_size = 20 /\ mime_type = "ULAW"
    /\ Len(out) >= 2
    /\ ~out[1].final /\ Len(out[1].data) = 320
    /\ out[Len(out)].final

\* C10: when the provider fails after it has yielded at least one chunk, the stream
\* raises that error into its consumer; what was delivered before is a prefix of what
\* the failure-free run over the same chunks delivers, holds no flush output, and
\* nothing is delivered afterwards.
C10_MidStreamFailure ==
    /\ [](  (harness = "stream" /\ error = "provider" /\ pulled # <<>>) =>
              /\ stream = "error" /\ raised_by = "iteration" /\ pc = "returned"
              /\ IsPrefix(OutData, RefStream(pulled))
              /\ \A i \in 1 .. Len(out) : ~out[i].final )
    /\ [][stream = "error" => out' = out /\ stream' = "error"]_vars

C10_Witness ==
    /\ harness = "stream" /\ error = "provider"
    /\ Len(pulled) = 2
    /\ Len(out) >= 1
    /\ Len(out) < Len(RefStream(pulled))

---------------------------------------------------------------------------
(* Realtime transcription *)

\* the PCM of a companded chunk
RawDecode(c, fmt) == IF fmt = "ULAW" THEN ulaw2lin(c) ELSE alaw2lin(c)

RECURSIVE RefRealtime(_, _, _, _, _, _)
\* for each caller chunk, in order, the buffer the session's Resampler returns for
\* its PCM, the Resampler starting in (buf, tail)
RefRealtime(chunks, buf, tail, fmt, rin, rout) ==
    IF chunks = <<>> THEN <<>>
    ELSE LET r == process_chunk(buf, tail, RawDecode(Head(chunks), fmt), FALSE, rin, rout)
         IN <<r.out>> \o RefRealtime(Tail(chunks), r.buf, r.tail, fmt, rin, rout)

\* C11: with mu-law or A-law input and no empty chunk, the buffers the provider's
\* send path has received, followed by the one in flight, are the caller's chunks
\* decoded and resampled, one non-empty buffer per chunk in the caller's order; a
\* send path that ended early has received a prefix of them, a finished one all
C11_OneBufferPerChunk ==
    (/\ input_audio_format \in {"ULAW", "ALAW"}
     /\ \A i \in 1 .. Len(pulled) : pulled[i] # <<>>)
    => LET ref == RefRealtime(pulled, <<>>, <<>>, input_audio_format,
                              input_sample_rate, default_sample_rate)
       IN /\ Len(ref) = Len(pulled)
          /\ \A i \in 1 .. Len(ref) : ref[i] # <<>>
          /\ IsPrefix(provider_input, ref)
          /\ TaskIs("send", "running") => provider_input \o rs_pending = ref
          /\ TaskIs("send", "done") => provider_input = ref

\* three mu-law chunks at 8000 Hz, one longer than the Resampler's tail, all delivered
C11_Witness ==
    /\ input_audio_format = "ULAW"
    /\ input_sample_rate = 8000
    /\ Len(pulled) = 3
    /\ \A i \in 1 .. 3 : pulled[i] # <<>>
    /\ \E i \in 1 .. 3 : Len(pulled[i]) = 31
    /\ TaskIs("send", "done")
    /\ Len(provider_input) = 3

C13_EndsOnFirstCompletion ==
    (TaskIs("send", "done") \/ TaskIs("receive", "done"))
        ~> (rt_pc \in {"returned", "raised", "cancelled"})

---------------------------------------------------------------------------
(* Transcription WebSocket *)

\* C14: a WebSocket session that has ended has left no provider connection open:
\* a connection that was opened has been closed by a disconnect call; and whenever
\* disconnect has been called, every task of the session has completed, failed or
\* been cancelled
C14_DisconnectAfterTasks ==
    /\ ws_pc = "closed" => session # "open"
    /\ session = "closed" => disconnect_calls > 0
    /\ disconnect_calls > 0 =>
          \A t \in DOMAIN tasks : tasks[t] \in {"done", "failed", "cancelled"}

\* a session that ended on a task failure, with another task cancelled by the
\* endpoint, and the connection closed
C14_Witness ==
    /\ ws_pc = "closed"
    /\ session = "closed"
    /\ disconnect_calls = 1
    /\ \E t \in DOMAIN tasks : tasks[t] = "failed"
    /\ \E t \in DOMAIN tasks : tasks[t] = "cancelled"

RECURSIVE RefIngest(_, _, _, _, _, _)
\* for each client chunk, in order, its decoding from fmt resampled from rin to rout
\* by one Resampler started in (buf, tail)
RefIngest(chunks, buf, tail, fmt, rin, rout) ==
    IF chunks = <<>> THEN <<>>
    ELSE LET r == process_chunk(buf, tail, decode(Head(chunks), fmt).data, FALSE, rin, rout)
         IN <<r.out>> \o RefIngest(Tail(chunks), r.buf, r.tail, fmt, rin, rout)

\* C15: the provider's input holds, for every non-empty chunk the client has sent,
\* that chunk decoded from the init's format and resampled from the init's rate to
\* the provider's rate, in order
C15_EveryChunkReachesProvider ==
    (ws_pc # "idle" /\ \A i \in 1 .. Len(pulled) : pulled[i] # <<>>)
    => provider_input = RefIngest(pulled, <<>>, <<>>, input_audio_format,
                                  input_sample_rate, default_sample_rate)

---------------------------------------------------------------------------
(* Concurrent requests *)

\* what a request with configuration cfg delivers when it runs alone over the
\* provider buffers `chunks`: the chunks, and how the run ends
AloneRun(cfg, chunks) ==
    IF cfg.kind = "speak"
    THEN LET e == encode(process_chunk(<<>>, <<>>, chunks[1], TRUE, cfg.native, cfg.rate).out,
                         cfg.mime)
         IN [out |-> IF e.err = "none" THEN <<e.data>> ELSE <<>>,
             st |-> IF e.err = "none" THEN "done" ELSE "error"]
    ELSE LET e == EncodeAll(RefFrames(RefResampled(chunks, <<>>, <<>>, cfg.native, cfg.rate),
                                      bytes_per_chunk(cfg.rate, cfg.ms)),
                            cfg.mime)
         IN [out |-> e.out, st |-> IF e.err = "none" THEN "done" ELSE "error"]

\* C16: whatever the interleaving of two concurrent requests, each one that has
\* ended has delivered exactly what it delivers when it runs alone over the same
\* provider audio
C16_ConcurrentRequestsIndependent ==
    \A r \in DOMAIN reqs :
        reqs[r].st \in {"done", "error"} =>
            LET a == AloneRun(reqs[r].cfg, reqs[r].pulled)
            IN reqs[r].out = a.out /\ reqs[r].st = a.st

\* both requests have ended, each after the other had moved audio through its own
\* chain, one of them holding back an odd byte on the way
C16_Witness ==
    /\ DOMAIN reqs = Requests
    /\ \A r \in Requests : reqs[r].st = "done" /\ reqs[r].out # <<>>
    /\ \A r \in Requests : reqs[r].cfg.kind = "stream" /\ Len(reqs[r].pulled) = 2
    /\ \E r \in Requests : Len(reqs[r].pulled[1]) = 1

---------------------------------------------------------------------------
(* Streaming encoder *)

\* C17: the chunks encode_from_pcm_stream has emitted are, one for one and in
\* order, the encodings of the frames it has received; it adds nothing when its
\* input ends; and the only chunk that is not the encoding of a whole frame is the
\* one drained from the upstream stages at the end, of which there is at most one
C17_OneChunkPerFrame ==
    (harness = "stream" /\ pulled # <<>>) =>
        /\ Len(out) = Len(enc_in)
        /\ \A i \in 1 .. Len(out) : out[i].data = encode(enc_in[i], mime_type).data
        /\ Cardinality({i \in 1 .. Len(out) : out[i].final}) <= 1
        /\ \A i \in 1 .. Len(out) : ~out[i].final => Len(enc_in[i]) = ChunkBytes

---------------------------------------------------------------------------
(* Codec round trip *)

\* the quantization step of the segment a mu-law byte lies in
UlawStep(code) == 8 * Pow2(((255 - code) \div 16) % 8)

\* the quantization step of the segment an A-law byte lies in
AlawStep(code) ==
    LET seg == (XorBits(code, 85, 8) \div 16) % 8
    IN 16 * Pow2(Max(seg, 1) - 1)

QuantStep(code, mime) == IF mime = "ULAW" THEN UlawStep(code) ELSE AlawStep(code)

Abs(x) == IF x < 0 THEN -x ELSE x

\* every chunk of the buffer is a whole number of samples
EvenChunks == \A i \in 1 .. Len(pulled) : Len(pulled[i]) % 2 = 0

\* C18: for a buffer of whole samples, encoding as PCM returns the buffer; for
\* mu-law and A-law decoding the encoding gives a buffer of the same length whose
\* samples are each within the quantization step of the byte that encodes them;
\* and the encodings of the chunks, concatenated, are the encoding of the whole
C18_CodecRoundTrip ==
    (harness = "codec" /\ EvenChunks) =>
        /\ error = "none"
        /\ \A i \in 1 .. Len(encoded) : encoded[i].err = "none"
        /\ pc \in {"encoded", "decoded"} =>
              /\ mime_type = "PCM" => result = Concat(pulled)
              /\ result = Concat([i \in 1 .. Len(encoded) |-> encoded[i].data])
        /\ (pc = "decoded" /\ mime_type \in {"ULAW", "ALAW"}) =>
              /\ Len(decoded[1]) = Len(Concat(pulled))
              /\ LET x == SamplesOf(Concat(pulled))
                     y == SamplesOf(decoded[1])
                 IN \A i \in 1 .. Len(x) :
                        Abs(y[i] - x[i]) <= QuantStep(result[i], mime_type)

\* a mu-law buffer of two chunks, three samples in all, an end of the range among
\* them, encoded whole and decoded again to samples that are not all the originals
C18_Witness ==
    /\ harness = "codec"
    /\ mime_type = "ULAW"
    /\ EvenChunks
    /\ Len(pulled) = 2
    /\ Len(Concat(pulled)) = 6
    /\ -32768 \in {SamplesOf(Concat(pulled))[i] : i \in 1 .. 3}
    /\ pc = "decoded"
    /\ decoded[1] # Concat(pulled)

---------------------------------------------------------------------------
(* Request validation *)

\* the text has a character that is not whitespace
NotBlank(text) == \E i \in 1 .. Len(text) : text[i] \notin Whitespace

\* C19: a SpeakRequest is accepted exactly when its sample rate is in 8000 .. 48000,
\* its chunk size, 20 when none is given, is in 1 .. 1000 and its text is not blank;
\* a request that is not accepted is rejected by the construction, with no
\* provider call before or after
C19_AcceptedExactlyInRange ==
    (harness = "request" /\ validation # "none") =>
        /\ validation = "accepted" <=>
              /\ candidate.sample_rate >= 8000 /\ candidate.sample_rate <= 48000
              /\ LET cs == IF candidate.chunk_size = <<>> THEN 20
                           ELSE candidate.chunk_size[1]
                 IN cs >= 1 /\ cs <= 1000
              /\ NotBlank(candidate.text)
        /\ validation = "accepted" =>
              /\ sample_rate = candidate.sample_rate
              /\ candidate.chunk_size = <<>> => chunk_size = 20
        /\ validation = "rejected" => (pc = "raised" /\ provider_calls = 0)
        /\ validation \in {"accepted", "rejected"}

\* a request at the lower bound of the rate, with no chunk size given and a text
\* with blanks around a letter, was accepted and reached the provider
C19_Witness ==
    /\ harness = "request"
    /\ validation = "accepted"
    /\ candidate.sample_rate = 8000
    /\ candidate.chunk_size = <<>>
    /\ candidate.text = <<" ", "a", " ">>
    /\ provider_calls = 1

---------------------------------------------------------------------------
(* Fallback *)

\* C20: execute_sequential and execute_parallel, called on a list of requests,
\* return normally only with the result of a request that succeeded; when every
\* request fails or times out they raise
C20_RaisesWhenAllFail ==
    (harness = "fallback" /\ fb_outcomes # <<>> /\ fb_pc = "returned") =>
        /\ Len(fb_result) = 2
        /\ fb_result[1] = "result"
        /\ fb_outcomes[fb_result[2]] = "ok"


\* C21: execute_parallel has a task running for every request of the list before it
\* waits for any; when it returns and a request of the list succeeds, what it
\* returns is the result of a request that succeeded; and at its return no task is
\* left running: each one either completed or has been cancelled
C21_ParallelFirstSuccess ==
    (harness = "fallback" /\ fb_strategy = "parallel" /\ fb_outcomes # <<>> /\ fb_pc # "idle") =>
        /\ DOMAIN tasks = 1 .. Len(fb_outcomes)
        /\ fb_pc = "returned" =>
              /\ \A i \in DOMAIN tasks : tasks[i] \in {"checked", "cancelling", "cancelled"}
              /\ (\E i \in 1 .. Len(fb_outcomes) : fb_outcomes[i] = "ok") =>
                    /\ Len(fb_result) = 2
                    /\ fb_result[1] = "result"
                    /\ fb_outcomes[fb_result[2]] = "ok"

\* three requests: the first failed and was passed over, the second's result was
\* returned, and the third, which had not completed, is being cancelled
C21_Witness ==
    /\ harness = "fallback"
    /\ fb_strategy = "parallel"
    /\ fb_outcomes = <<"error", "ok", "ok">>
    /\ fb_pc = "returned"
    /\ fb_result = <<"result", 2>>
    /\ tasks = <<"checked", "checked", "cancelling">>

---------------------------------------------------------------------------
(* Resampler: calls and state *)

\* the step is a call process_chunk(c) of process_stream's loop on a new buffer
RsLoopCall ==
    /\ harness = "resampler"
    /\ Len(pulled') = Len(pulled) + 1
    /\ rs_pc' = "src"

\* C22: a call of process_chunk with an empty buffer and flush = false returns an
\* empty buffer and leaves the odd-byte carry and the retained tail as they were,
\* in whatever state the Resampler is
C22_EmptyCallLeavesState ==
    [][(RsLoopCall /\ pulled'[Len(pulled')] = <<>>) =>
          /\ rs_pending' = <<>>
          /\ rs_audio_buffer' = rs_audio_buffer
          /\ input_tail' = input_tail]_vars

\* an empty buffer was the last one processed, by a Resampler that holds an odd
\* byte and a tail
C22_Witness ==
    /\ harness = "resampler"
    /\ rs_pc = "src"
    /\ Len(pulled) = 2
    /\ pulled[2] = <<>>
    /\ rs_audio_buffer # <<>>
    /\ input_tail # <<>>


\* C23: once a flush call has been made (here on a Resampler that held an odd
\* byte, so that process_stream makes the call too), the Resampler holds no odd
\* byte and no tail
C23_FlushDiscardsState ==
    (harness = "resampler" /\ rs_pc = "done" /\ TotalLen(pulled) % 2 = 1) =>
        /\ rs_audio_buffer = <<>>
        /\ input_tail = <<>>


\* the step is the end of process_stream's source
RsSourceEnd ==
    /\ harness = "resampler"
    /\ rs_pc = "src" /\ rs_pc' = "done"
    /\ pulled' = pulled

\* C24: process_stream yields at most one buffer for each input buffer, each one
\* before the next input is taken, and never an empty one; when the source ends it
\* makes one flush call if an odd byte is held and none otherwise, and nothing
\* after it; so the buffers yielded are at most the inputs plus one
C24_OneOutputPerInput ==
    /\ [](harness = "resampler" =>
            /\ \A i \in 1 .. Len(out) : out[i].data # <<>>
            /\ Len(rs_pending) <= 1
            /\ rs_pending # <<>> => rs_pending[1] # <<>>
            /\ Len(out) + Len(rs_pending) <= Len(pulled) + 1
            /\ \A i \in 1 .. Len(out) : out[i].final => i = Len(out))
    /\ [][RsLoopCall =>
            /\ rs_pending = <<>>
            /\ out' = out
            /\ Len(out') + Len(rs_pending') <= Len(pulled')]_vars
    /\ [][RsSourceEnd =>
            IF rs_audio_buffer # <<>>
            THEN /\ rs_pending' = <<process_chunk(rs_audio_buffer, input_tail, <<>>, TRUE,
                                                  default_sample_rate, sample_rate).out>>
                 /\ rs_audio_buffer' = <<>>
            ELSE /\ rs_pending' = <<>>
                 /\ UNCHANGED <<rs_audio_buffer, input_tail>>]_vars
    /\ [][(harness = "resampler" /\ rs_pc = "done") =>
            UNCHANGED <<rs_pc, pulled, rs_audio_buffer, input_tail>>]_vars

\* two inputs of odd total length at unequal rates: one buffer for each and one
\* more from the flush call
C24_Witness ==
    /\ harness = "resampler"
    /\ default_sample_rate # sample_rate
    /\ stream = "ended"
    /\ Len(pulled) = 2
    /\ TotalLen(pulled) % 2 = 1
    /\ Len(out) = 3
    /\ out[3].final

---------------------------------------------------------------------------
(* Chunker buffering *)

\* the frames the collector has yielded, taken by its consumer or not yet
CkYielded == out \o ck_pending

\* C25: whenever ChunkCollector.process_stream takes a buffer from its upstream, or
\* finds it exhausted, its carry holds fewer than N bytes; it yields at most one
\* final frame, as its last one, which is non-empty, shorter than N and made of the
\* last bytes received with nothing added; and it yields no final frame when the
\* bytes received are a whole number of frames
C25_BoundedCarry ==
    /\ [](harness = "chunker" =>
            /\ rs_pending # <<>> => Len(ck_audio_buffer) < ChunkBytes
            /\ \A i \in 1 .. Len(CkYielded) :
                  CkYielded[i].final =>
                      /\ i = Len(CkYielded)
                      /\ CkYielded[i].data # <<>>
                      /\ Len(CkYielded[i].data) < ChunkBytes
                      /\ Len(CkYielded[i].data) = TotalLen(pulled) % ChunkBytes
                      /\ CkYielded[i].data = LastN(Concat(pulled), Len(CkYielded[i].data))
            /\ stream = "ended" =>
                  ((\E i \in 1 .. Len(out) : out[i].final) <=>
                       TotalLen(pulled) % ChunkBytes # 0))
    /\ [][(harness = "chunker" /\ ck_pc = "run" /\ ck_pc' = "flushed") =>
              /\ Len(ck_audio_buffer) < ChunkBytes
              /\ ck_audio_buffer' = <<>>]_vars

\* the stream ended with a final frame one byte short of N, after whole frames
C25_Witness ==
    /\ harness = "chunker"
    /\ stream = "ended"
    /\ Len(out) >= 2
    /\ out[Len(out)].final
    /\ Len(out[Len(out)].data) = ChunkBytes - 1


\* the step is a call of process_chunk: one of process_stream's loop, a direct
\* flush call, or process_stream's flush call at the end of its source
RsCall ==
    /\ harness = "resampler"
    /\ rs_pc = "src"
    /\ \/ Len(pulled') = Len(pulled) + 1
       \/ rs_pc' = "done" /\ pulled' = pulled /\ rs_audio_buffer # <<>>

\* what a call on the even-length buffer pcm with the tail `tail` returns when the
\* first floor(t * up / down) resampled samples are dropped whatever their number
TailDropped(tail, pcm, rin, rout) ==
    LET concat_in == tail \o SamplesOf(pcm)
        full == SamplesOf(resample_pcm16(
                    BytesOf([k \in 1 .. Len(concat_in) |-> ToInt16(concat_in[k])]),
                    rin, rout))
        dropped == (Len(tail) * UpOf(rin, rout)) \div DownOf(rin, rout)
    IN [full |-> Len(full), dropped |-> dropped,
        out |-> BytesOf(SubSeq(full, dropped + 1, Len(full)))]

\* C26: at unequal rates the tail never holds more than 10 * max(up, down) samples,
\* and a call that processes n >= 1 new samples with a tail of t samples returns
\* the ceil((t + n) * up / down) resampled samples without their first
\* floor(t * up / down), which are fewer than all of them: between
\* ceil(n * up / down) and ceil(n * up / down) + 1 samples
C26_TailDropCount ==
    /\ [](harness = "resampler" =>
            Len(input_tail) <= TailLen(default_sample_rate, sample_rate))
    /\ [][(RsCall /\ default_sample_rate # sample_rate) =>
            LET c == IF Len(pulled') > Len(pulled) THEN pulled'[Len(pulled')] ELSE <<>>
                pcm == EvenPart(rs_audio_buffer \o c, rs_pc' = "done")
                n == Len(pcm) \div 2
                t == Len(input_tail)
                up == UpOf(default_sample_rate, sample_rate)
                down == DownOf(default_sample_rate, sample_rate)
                emitted == IF rs_pending' = <<>> THEN <<>> ELSE rs_pending'[1]
            IN n >= 1 =>
                  LET r == TailDropped(input_tail, pcm, default_sample_rate, sample_rate)
                  IN /\ r.full = Ceil((t + n) * up, down)
                     /\ r.dropped = (t * up) \div down
                     /\ r.dropped < r.full
                     /\ emitted = r.out
                     /\ Len(emitted) >= 2 * Ceil(n * up, down)
                     /\ Len(emitted) <= 2 * (Ceil(n * up, down) + 1)]_vars

\* from 16000 Hz to 24000 Hz: a third buffer was processed with a tail already at
\* its full length of 30 samples
C26_Witness ==
    /\ harness = "resampler"
    /\ default_sample_rate = 16000 /\ sample_rate = 24000
    /\ Len(pulled) = 3
    /\ Len(pulled[1]) = 50 /\ Len(pulled[2]) = 50 /\ Len(pulled[3]) = 35
    /\ Len(input_tail) = 30
    /\ rs_pending # <<>>
    /\ Len(rs_pending[1]) = 2 * (Ceil((30 + 17) * 3, 2) - 45)

---------------------------------------------------------------------------
(* Buffered and streaming delivery *)

\* what speak returns for the provider audio `audio`: process_chunk with
\* flush = True on a new Resampler, then encode
SpeakAudio(audio) ==
    encode(process_chunk(<<>>, <<>>, audio, TRUE, default_sample_rate, sample_rate).out,
           mime_type)

\* C28: with equal native and target rates and a PCM, mu-law or A-law target, speak
\* returns SpeakAudio of the provider's audio, and the stream of stream_speak, for
\* any split of that audio into provider chunks and any window size, ends normally
\* with chunks whose concatenation is the same buffer
C28_BufferedEqualsStreamed ==
    (default_sample_rate = sample_rate /\ mime_type \in {"PCM", "ULAW", "ALAW"}) =>
        /\ (harness = "speak" /\ pc = "returned") =>
              /\ SpeakAudio(pulled[1]).err = "none"
              /\ result = SpeakAudio(pulled[1]).data
        /\ (harness = "stream" /\ stream \in {"ended", "error"} /\ error # "provider") =>
              /\ stream = "ended"
              /\ SpeakAudio(Concat(pulled)).err = "none"
              /\ Concat(OutData) = SpeakAudio(Concat(pulled)).data

---------------------------------------------------------------------------
(* Provider configurations *)

\* C29: after any calls of add_config and delete_config, those that raised
\* included, configs and providers have the same uids; delete_config of an
\* unregistered uid raises ValueError and changes neither map; and get_provider for
\* a registered uid and a model that is not blacklisted returns a client
C29_MapsAgree ==
    harness = "config" =>
        /\ DOMAIN configs = DOMAIN providers
        /\ (cfg_call.op = "delete_config" /\ ~cfg_call.registered) =>
              (cfg_call.raised = "ValueError" /\ ~cfg_call.changed)
        /\ (cfg_call.op = "get_provider" /\ cfg_call.registered
               /\ cfg_call.model \notin configs[cfg_call.uid].blacklist_models) =>
              (cfg_call.raised = "none" /\ cfg_call.returned # "none")

---------------------------------------------------------------------------
(* Generic WebSocket responses *)

WmTerminal == {"success", "error"}

\* C30: every handled request got zero or more STREAMING responses followed by
\* exactly one terminal SUCCESS or ERROR; a stream that failed got ERROR as its
\* terminal response; a non-streaming or unsupported action got exactly one
\* response, SUCCESS or ERROR
C30_OneTerminalResponse ==
    (harness = "wsmanager" /\ request.handled /\ request.send_fails = 0) =>
        /\ Len(responses) >= 1
        /\ responses[Len(responses)] \in WmTerminal
        /\ \A i \in 1..(Len(responses) - 1) : responses[i] = "streaming"
        /\ (request.action \in StreamActions /\ request.handler = "raises") =>
              responses[Len(responses)] = "error"
        /\ request.action \notin StreamActions => Len(responses) = 1

---------------------------------------------------------------------------
(* Resampling in a worker thread *)

RECURSIVE WkFold(_, _, _, _, _)
\* the state and output of a Resampler after whole calls of process_chunk, one per
\* buffer of `chunks` and one after the other
WkFold(chunks, buf, tail, rin, rout) ==
    IF chunks = <<>> THEN [buf |-> buf, tail |-> tail, out |-> <<>>]
    ELSE LET r == process_chunk(buf, tail, Head(chunks), FALSE, rin, rout)
             rest == WkFold(Tail(chunks), r.buf, r.tail, rin, rout)
         IN [buf |-> rest.buf, tail |-> rest.tail, out |-> r.out \o rest.out]

\* a call of the worker thread is in flight for request r
WkInFlight(r) == reqs[r].st = "await" /\ reqs[r].wk = "queued"

\* some step of request r's own coroutine can be taken
WkCanStep(r) ==
    ENABLED ((\E n \in WorkerChunkLens : WkPull(r, n)) \/ WkSourceEnds(r) \/ WkResume(r))

\* calls never overlap, and between calls the carry, the tail and the output are
\* those of whole calls made one after the other
WkSequential ==
    \A r \in Requests :
        LET q == reqs[r]
            f == WkFold(q.pulled, <<>>, <<>>, q.cfg.native, q.cfg.rate)
        IN /\ q.started - q.returned = (IF q.st = "await" THEN 1 ELSE 0)
           /\ q.st = "run" => (q.buf = f.buf /\ q.tail = f.tail /\ q.out = f.out)
           /\ q.st = "done" =>
                 q.out = RefResampled(q.pulled, <<>>, <<>>, q.cfg.native, q.cfg.rate)

\* the thread's step gives back resample_pcm16 of the buffer it was given and
\* changes nothing else of the request, its carry and tail included
WkThreadPure ==
    \A r \in Requests :
        (reqs[r].wk = "queued" /\ reqs'[r].wk = "finished") =>
            reqs'[r] = [reqs[r] EXCEPT
                           !.ret = resample_pcm16(reqs[r].job, reqs[r].cfg.native, reqs[r].cfg.rate),
                           !.wk = "finished"]

\* while a call is in flight for one request, another request that is not
\* finished and not itself waiting for its thread can take a step
WkOthersProgress ==
    \A r \in Requests, o \in Requests :
        (r # o /\ WkInFlight(r) /\ reqs[o].st # "done" /\ reqs[o].wk # "queued") => WkCanStep(o)

\* C27: in one pipeline the resample calls never overlap (a call starts only after
\* the one before returned and updated carry and tail), the worker thread only
\* takes and returns byte buffers and leaves the Resampler's state alone, and
\* while a worker call is in flight the tasks of other requests can go on
C27_WorkerCalls ==
    /\ [](harness = "worker" => (WkSequential /\ WkOthersProgress))
    /\ [][harness = "worker" => WkThreadPure]_vars

\* C27: request 1's second call is in flight with a tail kept from its first, and
\* request 2 is between two calls of its own
C27_Witness ==
    /\ harness = "worker"
    /\ WkInFlight(1)
    /\ reqs[1].started = 2
    /\ reqs[1].tail # <<>>
    /\ reqs[2].st = "run" /\ reqs[2].pulled # <<>> /\ reqs[2].returned >= 1

====
